---- MODULE Spec2Model ----
(***************************************************************************)
(* A model of the gobo-rust front end: the byte-level lexer                *)
(* (src/src/lex/lexer.rs and its scanners) and the stack-driven,           *)
(* event-emitting parser (src/src/parse/parser.rs).                        *)
(*                                                                         *)
(* Offsets, token indices and line indices are 0-based as in the code; a   *)
(* sequence s of the model holds element i of the code at s[i + 1].        *)
(* A byte is a one-character string; bytes that have no printable form are *)
(* named: "LF" (\n), "CR" (\r), "SP" (space), "TAB", "DQ" ("), "SQ" ('),    *)
(* "BS" (\), "NUL" (0x00) and "UNI" (any byte above 0x7F).                 *)
(*                                                                         *)
(* A panic (an explicit panic!, todo!, expect, or a bounds-checked index)  *)
(* ends a run in the state "abort". A debug_assert! that fails aborts in a *)
(* debug build and is skipped in a release build: the step that meets it   *)
(* takes either outcome. An unchecked read outside an arena's written part *)
(* (release build) ends the run in the state "ub".                         *)
(***************************************************************************)
EXTENDS Integers, Sequences, FiniteSets, TLC

VARIABLES
    \* ---- lexer (struct Lexer and its TokenizedText output) ----
    text,                       \* SourceText.buffer
    cursor,                     \* Lexer.cursor
    line_index,                 \* Lexer.line_index
    tokens,                     \* TokenizedText.tokens
    lines,                      \* TokenizedText.lines
    comments,                   \* TokenizedText.comments
    diagnostics,                \* TokenizedText.diagnostics
    last_line_is_inserted,      \* TokenizedText.last_line_is_inserted
    open_delimiters,            \* Lexer.open_delimiters
    has_leading_space,          \* Lexer.has_leading_space
    has_mismatched_brackets,    \* Lexer.has_mismatched_brackets
    lpc,                        \* where Lexer::lex stands
    locs,                       \* the (line, column) pairs TokenizedText::dump reads
    \* ---- parser (struct Parser and its ParseEvents output) ----
    input,                      \* the token kinds of Parser.input
    events,                     \* ParseEvents.events
    p_cursor,                   \* Parser.cursor
    depth,                      \* Parser.depth
    stack,                      \* Parser.stack (the state kinds)
    last_statement_start,       \* Parser.last_statement_start
    ppc,                        \* where Parser::parse stands
    \* ---- a call of SourceText::find_next ----
    query,                      \* its arguments
    answer,                     \* its results
    \* ---- a ChunkedIndexVec ----
    a_len,                      \* ChunkedIndexVec.len
    a_chunks,                   \* ChunkedIndexVec.chunks (each chunk: its written slots)
    a_returned,                 \* the handles the pushes returned, in call order
    a_written,                  \* the value last stored under each handle
    apc                         \* "run", or "abort" after a panic

lexVars == <<text, cursor, line_index, tokens, lines, comments, diagnostics,
             last_line_is_inserted, open_delimiters, has_leading_space,
             has_mismatched_brackets, lpc>>
parseVars == <<input, events, p_cursor, depth, stack, last_statement_start, ppc>>
findVars == <<query, answer>>
arenaVars == <<a_len, a_chunks, a_returned, a_written, apc>>
vars == <<lexVars, locs, parseVars, findVars, arenaVars>>

-----------------------------------------------------------------------------
(* Bounds of the model *)

\* longest input over the whole alphabet
MaxLen == 2
\* longest input over the alphabet of the line-crossing constructs
MaxCoreLen == 5
\* longest input over the alphabet of the delimiters
MaxDelimLen == 4
\* longest input over the alphabet of the comparison and shift operators
MaxAngleLen == 4
\* longest input over the alphabet of the verbatim strings
MaxVerbatimLen == 5
\* longest input of number literals and dots
MaxNumberLen == 4
\* longest buffer a span is taken of
MaxSpanLen == 4
\* longest slice scanned for an identifier
MaxScanLen == 33
\* most words of an input of words
MaxWords == 3
\* longest buffer searched by find_next
MaxFindLen == 33
\* most pushes on the ChunkedIndexVec
MaxPushes == 5
\* largest argument of reserve
MaxReserve == 9
\* longest token stream handed to the parser (FileStart and FileEnd not counted)
MaxTokens == 5
\* longest well-formed token stream handed to the parser
MaxWellFormed == 7
MaxMembers == 3
MaxRecoverLen == 3

Strs(A, n) == UNION {[1..k -> A] : k \in 0..n}

-----------------------------------------------------------------------------
(* Bytes and their classes *)

LowerLetters == {"a","b","c","d","e","f","g","h","i","j","k","l","m",
                 "n","o","p","q","r","s","t","u","v","w","x","y","z"}
UpperLetters == {"A","B","C","D","E","F","G","H","I","J","K","L","M",
                 "N","O","P","Q","R","S","T","U","V","W","X","Y","Z"}
Digits == {"0","1","2","3","4","5","6","7","8","9"}

\* one byte for every class of the dispatch table and every byte a handler tests
Alphabet == {"a", "0", ".", "DQ", "@", "$", "SP", "LF", "CR", "/", "#",
             "[", "]", "(", ")", "{", "}", ",", "=", "*", "<", ">", "?",
             "UNI", "BS"}
\* the bytes of comments, error runs, escaped strings and line breaks
CoreAlphabet == {"a", "LF", "/", "*", "BS", "DQ"}

\* the bytes of the delimiters and accessors
DelimAlphabet == {"(", ")", "[", "]", "{", "}", "?"}

\* the bytes of the comparison and shift operators
AngleAlphabet == {"<", ">", "=", "a"}

\* the bytes of a verbatim string
VerbatimAlphabet == {"@", "DQ", "a"}
\* the bytes of number literals with one dot too many
NumberAlphabet == {"0", ".", "SP"}

\* identifier runs: the keywords of the language, each with its token kind,
\* and runs that are no keyword
KeywordMapping ==
    {<<<<"a", "n", "d">>, "And">>,
     <<<<"o", "r">>, "Or">>,
     <<<<"x", "o", "r">>, "Xor">>,
     <<<<"n", "o", "t">>, "Not">>,
     <<<<"m", "o", "d">>, "Modulo">>,
     <<<<"d", "i", "v">>, "IntegerDivide">>,
     <<<<"b", "e", "g", "i", "n">>, "LeftBrace">>,
     <<<<"e", "n", "d">>, "RightBrace">>,
     <<<<"t", "r", "u", "e">>, "BooleanLiteral">>,
     <<<<"f", "a", "l", "s", "e">>, "BooleanLiteral">>,
     <<<<"b", "r", "e", "a", "k">>, "Break">>,
     <<<<"e", "x", "i", "t">>, "Exit">>,
     <<<<"d", "o">>, "Do">>,
     <<<<"c", "a", "s", "e">>, "Case">>,
     <<<<"e", "l", "s", "e">>, "Else">>,
     <<<<"n", "e", "w">>, "New">>,
     <<<<"v", "a", "r">>, "Var">>,
     <<<<"g", "l", "o", "b", "a", "l", "v", "a", "r">>, "GlobalVar">>,
     <<<<"c", "a", "t", "c", "h">>, "Catch">>,
     <<<<"f", "i", "n", "a", "l", "l", "y">>, "Finally">>,
     <<<<"r", "e", "t", "u", "r", "n">>, "Return">>,
     <<<<"c", "o", "n", "t", "i", "n", "u", "e">>, "Continue">>,
     <<<<"f", "o", "r">>, "For">>,
     <<<<"s", "w", "i", "t", "c", "h">>, "Switch">>,
     <<<<"w", "h", "i", "l", "e">>, "While">>,
     <<<<"u", "n", "t", "i", "l">>, "Until">>,
     <<<<"r", "e", "p", "e", "a", "t">>, "Repeat">>,
     <<<<"f", "u", "n", "c", "t", "i", "o", "n">>, "Function">>,
     <<<<"w", "i", "t", "h">>, "With">>,
     <<<<"d", "e", "f", "a", "u", "l", "t">>, "Default">>,
     <<<<"i", "f">>, "If">>,
     <<<<"t", "h", "e", "n">>, "Then">>,
     <<<<"t", "h", "r", "o", "w">>, "Throw">>,
     <<<<"d", "e", "l", "e", "t", "e">>, "Delete">>,
     <<<<"t", "r", "y">>, "Try">>,
     <<<<"e", "n", "u", "m">>, "Enum">>,
     <<<<"c", "o", "n", "s", "t", "r", "u", "c", "t", "o", "r">>, "Constructor">>,
     <<<<"s", "t", "a", "t", "i", "c">>, "Static">>}

OtherWords == {<<"E", "n", "d">>, <<"T", "R", "U", "E">>, <<"e", "n", "d", "s">>,
               <<"b", "e", "g", "i", "n", "_">>, <<"x">>}

\* the words and braces of the texts of several words
Words == {<<"b", "e", "g", "i", "n">>, <<"e", "n", "d">>, <<"i", "f">>,
          <<"E", "n", "d">>, <<"x">>, <<"{">>, <<"}">>}

\* the words of ws with a space between them
RECURSIVE Join(_)
Join(ws) ==
    IF ws = <<>> THEN <<>>
    ELSE IF Len(ws) = 1 THEN ws[1]
    ELSE ws[1] \o <<"SP">> \o Join(Tail(ws))

WordInputs ==
    {Join(ws) : ws \in Strs(Words, MaxWords)}
        \cup {k[1] : k \in KeywordMapping} \cup OtherWords

LexInputs ==
    Strs(Alphabet, MaxLen) \cup Strs(CoreAlphabet, MaxCoreLen)
        \cup Strs(DelimAlphabet, MaxDelimLen)
        \cup Strs(AngleAlphabet, MaxAngleLen)
        \cup Strs(VerbatimAlphabet, MaxVerbatimLen)
        \cup Strs(NumberAlphabet, MaxNumberLen)
        \cup WordInputs

is_horizontal_whitespace(c) == c \in {"SP", "TAB"}

is_digit(c) == c \in Digits

is_identifier_byte(c) == c \in LowerLetters \cup UpperLetters \cup {"_"} \cup Digits

is_identifier_start(c) == c \in LowerLetters \cup UpperLetters \cup {"_"}

IsAscii(c) == c # "UNI"

DISPATCH_TABLE(c) ==
    CASE c = "LF" -> "NewLine"
      [] c = "CR" -> "Cr"
      [] c = "!" -> "Exclamation"
      [] c = "DQ" -> "Quote"
      [] c = "$" -> "Dollar"
      [] c = "#" -> "Hash"
      [] c = "%" -> "Percent"
      [] c = "&" -> "Ampersand"
      [] c = "(" -> "ParenOpen"
      [] c = ")" -> "ParenClose"
      [] c = "*" -> "Asterisk"
      [] c = "+" -> "Plus"
      [] c = "," -> "Comma"
      [] c = "-" -> "Minus"
      [] c = "." -> "Dot"
      [] c = "/" -> "Slash"
      [] c = "0" -> "DigitZero"
      [] c \in Digits \ {"0"} -> "DigitNonZero"
      [] c = ":" -> "Colon"
      [] c = ";" -> "Semicolon"
      [] c = "<" -> "LessThan"
      [] c = "=" -> "Equal"
      [] c = ">" -> "GreaterThan"
      [] c = "?" -> "Question"
      [] c = "@" -> "At"
      [] c = "[" -> "BracketOpen"
      [] c = "]" -> "BracketClose"
      [] c = "^" -> "Caret"
      [] c = "{" -> "BraceOpen"
      [] c = "|" -> "Pipe"
      [] c = "}" -> "BraceClose"
      [] c = "~" -> "Tilde"
      [] OTHER -> IF is_identifier_start(c) THEN "IdentifierStart"
                  ELSE IF is_horizontal_whitespace(c) THEN "HorizontalSpace"
                  ELSE IF IsAscii(c) THEN "Error"
                  ELSE "Unicode"

-----------------------------------------------------------------------------
(* Token kinds and delimiters *)

OpenDelimiters == {"LeftParen", "LeftBrace", "LeftSquare", "ArrayAccessor",
                   "ListAccessor", "GridAccessor", "MapAccessor", "StructAccessor"}
CloseDelimiters == {"RightParen", "RightBrace", "RightSquare"}

is_open_delimiter(kind) == kind \in OpenDelimiters

is_close_delimiter(kind) == kind \in CloseDelimiters

is_matching_delimiter(open_kind, close_kind) ==
    CASE open_kind = "LeftParen" -> close_kind = "RightParen"
      [] open_kind = "LeftBrace" -> close_kind = "RightBrace"
      [] open_kind \in {"LeftSquare", "ArrayAccessor", "ListAccessor",
                        "GridAccessor", "MapAccessor", "StructAccessor"}
            -> close_kind = "RightSquare"
      [] OTHER -> FALSE

\* Token::PAYLOAD_MASK and Token::MAX_INDEX, (1 << 23) - 1
PAYLOAD_MASK == 8388607

\* Token::new: the payload keeps its 23 bits
Token_new(kind, has_space, payload, start) ==
    [kind |-> kind, has_leading_space |-> has_space,
     payload |-> payload % (PAYLOAD_MASK + 1), start |-> start]

\* Token::set_payload
set_payload(token, payload) ==
    [token EXCEPT !.payload = payload % (PAYLOAD_MASK + 1)]

Line_new(start) == [start |-> start, indent |-> 0]

-----------------------------------------------------------------------------
(* Source buffer (src/src/source_text.rs) *)

\* SourceText::len
text_len == Len(text)

\* SourceText::get_byte, for an index inside the buffer (the callers below
\* abort on an index outside it, as the bounds-checked read does)
get_byte(index) == text[index + 1]

\* SourceText::get_slice(start..)
get_slice_from(start) == SubSeq(text, start + 1, Len(text))

\* index_of_scalar: the first position of byte in haystack at or after from,
\* or -1 (None)
RECURSIVE index_of_scalar_from(_, _, _)
index_of_scalar_from(byte, haystack, from) ==
    IF from >= Len(haystack) THEN -1
    ELSE IF haystack[from + 1] = byte THEN from
    ELSE index_of_scalar_from(byte, haystack, from + 1)

index_of_scalar(byte, haystack) == index_of_scalar_from(byte, haystack, 0)

\* SSE_CHUNK of index_of_sse2
SSE_CHUNK == 16

\* a faulty variant of index_of_sse2 that takes the highest set bit of the
\* compare mask
RECURSIVE index_of_sse2_last_hit(_, _, _)
index_of_sse2_last_hit(byte, haystack, i) ==
    IF i + SSE_CHUNK <= Len(haystack)
    THEN LET hits == {k \in 0..(SSE_CHUNK - 1) : haystack[i + k + 1] = byte}
         IN  IF hits # {}
             THEN i + (CHOOSE k \in hits : \A j \in hits : k >= j)
             ELSE index_of_sse2_last_hit(byte, haystack, i + SSE_CHUNK)
    ELSE LET tail == index_of_scalar(byte, SubSeq(haystack, i + 1, Len(haystack)))
         IN  IF tail = -1 THEN -1 ELSE i + tail

\* index_of_sse2: whole 16-byte chunks first (the first match of a chunk is
\* the lowest set bit of its compare mask), then the scalar tail
RECURSIVE index_of_sse2_from(_, _, _)
index_of_sse2_from(byte, haystack, i) ==
    IF i + SSE_CHUNK <= Len(haystack)
    THEN LET hits == {k \in 0..(SSE_CHUNK - 1) : haystack[i + k + 1] = byte}
         IN  IF hits # {}
             THEN i + (CHOOSE k \in hits : \A j \in hits : k <= j)
             ELSE index_of_sse2_from(byte, haystack, i + SSE_CHUNK)
    ELSE LET tail == index_of_scalar(byte, SubSeq(haystack, i + 1, Len(haystack)))
         IN  IF tail = -1 THEN -1 ELSE i + tail

\* index_of on x86 with SSE2
index_of(byte, haystack) == index_of_sse2_from(byte, haystack, 0)

\* SourceText::find_next, -1 for None
find_next(byte, start) ==
    LET offset == index_of(byte, get_slice_from(start))
    IN  IF offset = -1 THEN -1 ELSE start + offset

-----------------------------------------------------------------------------
(* Scanners (identifier_lexer.rs, number_lexer.rs, string_lexer.rs).        *)
(* Each takes the slice t that starts at the cursor.                        *)

RECURSIVE scan_identifier_scalar(_, _)
scan_identifier_scalar(t, start) ==
    IF start < Len(t) /\ is_identifier_byte(t[start + 1])
    THEN scan_identifier_scalar(t, start + 1)
    ELSE start

\* scan_identifier: the 16-byte chunk loop of scan_identifier_x86 is not
\* entered for a slice shorter than 16 bytes, which leaves the scalar scan
scan_identifier(t) == scan_identifier_scalar(t, 0)

\* scan_number_or_dot
RECURSIVE scan_number_loop(_, _, _)
scan_number_loop(t, index, found_dot) ==
    IF index >= Len(t) THEN [index |-> index, found_dot |-> found_dot, error |-> FALSE]
    ELSE LET c == t[index + 1]
         IN  IF is_digit(c) \/ c = "_"
             THEN scan_number_loop(t, index + 1, found_dot)
             ELSE IF c = "."
             THEN IF found_dot
                  THEN [index |-> index, found_dot |-> TRUE, error |-> TRUE]
                  ELSE scan_number_loop(t, index + 1, TRUE)
             ELSE [index |-> index, found_dot |-> found_dot, error |-> FALSE]

scan_number_or_dot(t) ==
    LET r == scan_number_loop(t, 0, FALSE)
    IN  [len |-> r.index,
         kind |-> IF r.error THEN "Error"
                  ELSE IF r.found_dot
                       THEN (IF r.index = 1 THEN "Dot" ELSE "RealLiteral")
                       ELSE "IntegerLiteral"]

\* scan_string_literal
RECURSIVE scan_string_loop(_, _)
scan_string_loop(t, index) ==
    IF index >= Len(t) THEN [index |-> index, unterminated |-> TRUE]
    ELSE LET c == t[index + 1]
         IN  IF c = "BS" THEN scan_string_loop(t, index + 2)
             ELSE IF c = "DQ" THEN [index |-> index + 1, unterminated |-> FALSE]
             ELSE IF c = "LF" THEN [index |-> index, unterminated |-> TRUE]
             ELSE scan_string_loop(t, index + 1)

scan_string_literal(t) ==
    LET r == scan_string_loop(t, 1)
    IN  [len |-> r.index, panic |-> FALSE,
         kind |-> IF r.unterminated THEN "Error" ELSE "StringLiteral"]

\* scan_verbatim_string_literal, after its debug assertions. The byte after
\* a quote is read with a bounds-checked index: past the slice it panics.
RECURSIVE scan_verbatim_loop(_, _)
scan_verbatim_loop(t, index) ==
    IF index >= Len(t) THEN [index |-> index, unterminated |-> TRUE, panic |-> FALSE]
    ELSE IF t[index + 1] = "DQ"
         THEN IF index + 1 >= Len(t)
              THEN [index |-> index + 1, unterminated |-> TRUE, panic |-> TRUE]
              ELSE IF t[index + 2] = "DQ"
                   THEN scan_verbatim_loop(t, index + 1)
                   ELSE [index |-> index + 1, unterminated |-> FALSE, panic |-> FALSE]
         ELSE scan_verbatim_loop(t, index + 1)

\* the debug assertions of scan_verbatim_string_literal
verbatim_debug_asserts(t) ==
    /\ t[1] = "@"
    /\ Len(t) > 2
    /\ t[2] \in {"DQ", "SQ"}

scan_verbatim_string_literal(t) ==
    LET r == scan_verbatim_loop(t, 1)
    IN  [len |-> r.index, panic |-> r.panic,
         kind |-> IF r.unterminated THEN "Error" ELSE "VerbatimStringLiteral"]

-----------------------------------------------------------------------------
(* The lexer (src/src/lex/lexer.rs). A handler is an operator from the      *)
(* lexer's state, as a record, to its state after the handler.              *)

\* the fields of Lexer and of its TokenizedText, with the position in lex
LexState ==
    [cursor |-> cursor, line_index |-> line_index, tokens |-> tokens,
     lines |-> lines, comments |-> comments, diagnostics |-> diagnostics,
     last_line_is_inserted |-> last_line_is_inserted,
     open_delimiters |-> open_delimiters,
     has_leading_space |-> has_leading_space,
     has_mismatched_brackets |-> has_mismatched_brackets, pc |-> lpc]

\* a panic: the handler does not return
Panic(s) == [s EXCEPT !.pc = "abort"]

\* a loop that repeats without changing the state: the handler does not return
Diverge(s) == [s EXCEPT !.pc = "hang"]

\* an unchecked read outside the written part of an arena
Undefined(s) == [s EXCEPT !.pc = "ub"]

\* Lexer::add_token_with_payload; the new token's index is Len(s.tokens)
add_token_with_payload(s, kind, payload, start) ==
    [s EXCEPT !.tokens = Append(@, Token_new(kind, s.has_leading_space, payload, start)),
              !.has_leading_space = FALSE]

\* Lexer::add_token
add_token(s, kind, start) == add_token_with_payload(s, kind, 0, start)

\* Lexer::peek
peek(s) == IF s.cursor + 1 < text_len THEN get_byte(s.cursor + 1) ELSE "NUL"

\* Lexer::skip_horizontal_whitespace
RECURSIVE skip_horizontal_whitespace(_)
skip_horizontal_whitespace(s) ==
    IF s.cursor < text_len /\ is_horizontal_whitespace(get_byte(s.cursor))
    THEN skip_horizontal_whitespace([s EXCEPT !.cursor = @ + 1])
    ELSE s

\* Lexer::advance_to_line. lines.get reads the arena unchecked in a release
\* build and under a debug assertion in a debug build.
advance_to_line(s, to_line, build) ==
    IF to_line >= Len(s.lines)
    THEN IF build = "debug" THEN Panic(s) ELSE Undefined(s)
    ELSE LET s1 == [s EXCEPT !.line_index = to_line,
                             !.cursor = s.lines[to_line + 1].start]
             s2 == skip_horizontal_whitespace(s1)
         IN  [s2 EXCEPT !.lines[to_line + 1].indent =
                            s2.cursor - s2.lines[to_line + 1].start]

\* Lexer::advance_to_next_line
advance_to_next_line(s, build) == advance_to_line(s, s.line_index + 1, build)

\* Lexer::make_lines
RECURSIVE make_lines_loop(_, _)
make_lines_loop(start, acc) ==
    LET new_line_start == find_next("LF", start)
    IN  IF new_line_start # -1
        THEN make_lines_loop(new_line_start + 1, Append(acc, Line_new(start)))
        ELSE [start |-> start, lines |-> acc]

\* a faulty variant of make_lines that adds the blank final line to every
\* non-empty buffer
make_lines_always_blank_line(s) ==
    IF text_len = 0
    THEN [s EXCEPT !.lines = Append(@, Line_new(0))]
    ELSE LET r == make_lines_loop(0, s.lines)
             with_last == Append(r.lines, Line_new(r.start))
         IN  [s EXCEPT !.lines = Append(with_last, Line_new(text_len)),
                       !.last_line_is_inserted = TRUE]

make_lines(s) ==
    IF text_len = 0
    THEN [s EXCEPT !.lines = Append(@, Line_new(0))]
    ELSE LET r == make_lines_loop(0, s.lines)
             with_last == Append(r.lines, Line_new(r.start))
         IN  IF r.start # text_len
             THEN [s EXCEPT !.lines = Append(with_last, Line_new(text_len)),
                            !.last_line_is_inserted = TRUE]
             ELSE [s EXCEPT !.lines = with_last]

\* Lexer::lex_file_start
lex_file_start(s, build) ==
    LET s1 == add_token(s, "FileStart", 0)
        s2 == [s1 EXCEPT !.has_leading_space = TRUE]
    IN  advance_to_line(s2, 0, build)

\* a faulty variant of lex_file_end that ends the lexing without the FileEnd
\* token
lex_file_end_no_token(s, build) ==
    IF s.cursor # text_len /\ build = "debug"
    THEN Panic(s)
    ELSE [s EXCEPT !.has_leading_space = TRUE, !.pc = "done"]

\* Lexer::lex_file_end, then the token-count test that ends Lexer::lex
lex_file_end(s, build) ==
    IF s.cursor # text_len /\ build = "debug"
    THEN Panic(s)
    ELSE LET s1 == add_token([s EXCEPT !.has_leading_space = TRUE], "FileEnd", s.cursor)
         IN  IF Len(s1.tokens) >= PAYLOAD_MASK THEN Panic(s1)
             ELSE [s1 EXCEPT !.pc = "done"]

\* Lexer::lex_byte
lex_byte(s, kind) == [add_token(s, kind, s.cursor) EXCEPT !.cursor = @ + 1]

\* Lexer::handle_open_delimiter
handle_open_delimiter(s, open_token_index) ==
    [s EXCEPT !.open_delimiters = Append(@, open_token_index)]

\* a faulty variant of handle_close_delimiter that does not patch the open token
handle_close_delimiter_no_patch(s, close_token_index) ==
    IF s.open_delimiters # <<>>
    THEN LET n == Len(s.open_delimiters)
             open_token_index == s.open_delimiters[n]
         IN  [s EXCEPT !.open_delimiters = SubSeq(@, 1, n - 1),
                       !.tokens[close_token_index + 1] = set_payload(@, open_token_index)]
    ELSE [s EXCEPT !.has_mismatched_brackets = TRUE]

\* Lexer::handle_close_delimiter
handle_close_delimiter(s, close_token_index) ==
    IF s.open_delimiters # <<>>
    THEN LET n == Len(s.open_delimiters)
             open_token_index == s.open_delimiters[n]
             s1 == [s EXCEPT !.open_delimiters = SubSeq(@, 1, n - 1),
                             !.tokens[close_token_index + 1] =
                                 set_payload(@, open_token_index)]
             close_kind == s1.tokens[close_token_index + 1].kind
             open_token == s1.tokens[open_token_index + 1]
         IN  IF is_matching_delimiter(open_token.kind, close_kind)
             THEN [s1 EXCEPT !.tokens[open_token_index + 1] =
                                 set_payload(@, close_token_index)]
             ELSE [s1 EXCEPT !.has_mismatched_brackets = TRUE]
    ELSE [s EXCEPT !.has_mismatched_brackets = TRUE]

\* Lexer::lex_open_delimiter
lex_open_delimiter(s, kind) ==
    LET token_index == Len(s.tokens)
        s1 == [add_token(s, kind, s.cursor) EXCEPT !.cursor = @ + 1]
    IN  handle_open_delimiter(s1, token_index)

\* Lexer::lex_close_delimiter
lex_close_delimiter(s, kind) ==
    LET token_index == Len(s.tokens)
        s1 == [add_token(s, kind, s.cursor) EXCEPT !.cursor = @ + 1]
    IN  handle_close_delimiter(s1, token_index)

\* Lexer::lex_byte_and_equals
lex_byte_and_equals(s, start, kind, equals_kind) ==
    IF peek(s) = "="
    THEN add_token([s EXCEPT !.cursor = @ + 2], equals_kind, start)
    ELSE add_token([s EXCEPT !.cursor = @ + 1], kind, start)

\* Lexer::lex_byte_twice_or_equals
lex_byte_twice_or_equals(s, kind, twice_kind, equals_kind) ==
    LET start == s.cursor
        start_byte == get_byte(s.cursor)
    IN  IF peek(s) = "="
        THEN add_token([s EXCEPT !.cursor = @ + 2], equals_kind, start)
        ELSE IF peek(s) = start_byte
        THEN add_token([s EXCEPT !.cursor = @ + 2], twice_kind, start)
        ELSE add_token([s EXCEPT !.cursor = @ + 1], kind, start)

\* Lexer::lex_error
RECURSIVE lex_error_run(_)
lex_error_run(c) ==
    IF c < text_len /\ ~(is_identifier_byte(get_byte(c)) \/ is_horizontal_whitespace(get_byte(c)))
    THEN lex_error_run(c + 1)
    ELSE c

\* a faulty variant of lex_error that pushes no diagnostic
lex_error_no_diagnostic(s) ==
    LET start == s.cursor
        stop == lex_error_run(start)
        end == IF stop - start = 0 THEN stop + 1 ELSE stop
    IN  add_token_with_payload([s EXCEPT !.cursor = end], "Error", end - start, start)

lex_error(s) ==
    LET start == s.cursor
        stop == lex_error_run(start)
        \* take at least one char
        end == IF stop - start = 0 THEN stop + 1 ELSE stop
        s1 == [s EXCEPT !.cursor = end,
                        !.diagnostics = Append(@, "unrecognized characters while parsing")]
    IN  add_token_with_payload(s1, "Error", end - start, start)


\* Lexer::lex_vertical_whitespace
lex_vertical_whitespace(s, build) ==
    advance_to_next_line([s EXCEPT !.has_leading_space = TRUE], build)

\* Lexer::lex_horizontal_whitespace
lex_horizontal_whitespace(s) ==
    skip_horizontal_whitespace([s EXCEPT !.has_leading_space = TRUE])

\* Lexer::lex_cr
lex_cr(s, build) ==
    IF peek(s) = "LF"
    THEN lex_vertical_whitespace(s, build)
    ELSE LET is_lfcr == s.cursor > 0 /\ get_byte(s.cursor - 1) = "LF"
             message == IF is_lfcr
                        THEN "the LF+CR line ending is not supported, only LF and CR+LF are supported"
                        ELSE "a raw CR line ending is not supported, only LF and CR+LF are supported"
         IN  [s EXCEPT !.diagnostics = Append(@, message),
                       !.has_leading_space = TRUE,
                       !.cursor = @ + 1]

\* the bytes of a slice as one string
RECURSIVE SliceString(_)
SliceString(t) == IF t = <<>> THEN "" ELSE Head(t) \o SliceString(Tail(t))

\* Lexer::match_keyword
match_keyword(word) ==
    CASE word = "and" -> "And"
      [] word = "or" -> "Or"
      [] word = "xor" -> "Xor"
      [] word = "not" -> "Not"
      [] word = "mod" -> "Modulo"
      [] word = "div" -> "IntegerDivide"
      [] word = "begin" -> "LeftBrace"
      [] word = "end" -> "RightBrace"
      [] word = "true" -> "BooleanLiteral"
      [] word = "false" -> "BooleanLiteral"
      [] word = "break" -> "Break"
      [] word = "exit" -> "Exit"
      [] word = "do" -> "Do"
      [] word = "until" -> "Until"
      [] word = "case" -> "Case"
      [] word = "else" -> "Else"
      [] word = "new" -> "New"
      [] word = "var" -> "Var"
      [] word = "globalvar" -> "GlobalVar"
      [] word = "try" -> "Try"
      [] word = "catch" -> "Catch"
      [] word = "finally" -> "Finally"
      [] word = "return" -> "Return"
      [] word = "continue" -> "Continue"
      [] word = "for" -> "For"
      [] word = "switch" -> "Switch"
      [] word = "while" -> "While"
      [] word = "repeat" -> "Repeat"
      [] word = "function" -> "Function"
      [] word = "with" -> "With"
      [] word = "default" -> "Default"
      [] word = "if" -> "If"
      [] word = "then" -> "Then"
      [] word = "throw" -> "Throw"
      [] word = "delete" -> "Delete"
      [] word = "enum" -> "Enum"
      [] word = "constructor" -> "Constructor"
      [] OTHER -> "Identifier"

\* Lexer::lex_keyword_or_identifier
lex_keyword_or_identifier(s) ==
    LET start == s.cursor
    IN  IF ~IsAscii(get_byte(start))
        THEN lex_error(s)
        ELSE LET end == start + scan_identifier(get_slice_from(start))
                 slice == SubSeq(text, start + 1, end)
                 kind == match_keyword(SliceString(slice))
             IN  add_token([s EXCEPT !.cursor = end], kind, start)

\* Lexer::lex_accessor; current() after the '[' is a bounds-checked read
lex_accessor(s) ==
    LET start == s.cursor
        s1 == [s EXCEPT !.cursor = @ + 1]
    IN  IF s1.cursor >= text_len
        THEN Panic(s1)
        ELSE LET c == get_byte(s1.cursor)
                 kind == CASE c = "|" -> "ListAccessor"
                           [] c = "?" -> "MapAccessor"
                           [] c = "#" -> "GridAccessor"
                           [] c = "@" -> "ArrayAccessor"
                           [] c = "$" -> "StructAccessor"
                           [] OTHER -> "LeftSquare"
                 s2 == IF kind # "LeftSquare" THEN [s1 EXCEPT !.cursor = @ + 1] ELSE s1
                 token_index == Len(s2.tokens)
             IN  handle_open_delimiter(add_token(s2, kind, start), token_index)

\* the shape shared by lex_less_than and lex_greater_than: current() after
\* the first byte is a bounds-checked read
lex_angle(s, byte, kind, equals_kind, shift_kind, shift_assign_kind) ==
    LET start == s.cursor
        s1 == [s EXCEPT !.cursor = @ + 1]
    IN  IF s1.cursor >= text_len
        THEN Panic(s1)
        ELSE LET c == get_byte(s1.cursor)
             IN  IF c = byte
                 THEN lex_byte_and_equals([s1 EXCEPT !.cursor = @ + 1], start,
                                          shift_kind, shift_assign_kind)
                 ELSE IF c = "="
                 THEN add_token([s1 EXCEPT !.cursor = @ + 1], equals_kind, start)
                 ELSE add_token(s1, kind, start)

\* Lexer::lex_less_than
lex_less_than(s) ==
    lex_angle(s, "<", "LessThan", "LessThanEquals", "LeftShift", "LeftShiftAssign")

\* Lexer::lex_greater_than
lex_greater_than(s) ==
    lex_angle(s, ">", "GreaterThan", "GreaterThanEquals", "RightShift", "RightShiftAssign")

\* Lexer::lex_question
lex_question(s) ==
    LET start == s.cursor
        s1 == [s EXCEPT !.cursor = @ + 1]
    IN  IF s1.cursor >= text_len
        THEN Panic(s1)
        ELSE IF get_byte(s1.cursor) = "?"
             THEN lex_byte_and_equals([s1 EXCEPT !.cursor = @ + 1], start,
                                      "NullCoalesce", "NullCoalesceAssign")
             ELSE add_token(s1, "GreaterThan", start)

\* Lexer::lex_number_literal_or_dot
lex_number_literal_or_dot(s) ==
    LET start == s.cursor
        r == scan_number_or_dot(get_slice_from(start))
    IN  IF r.kind = "Error" THEN lex_error(s)
        ELSE IF r.kind = "Dot"
             THEN add_token([s EXCEPT !.cursor = @ + r.len], "Dot", start)
             ELSE add_token_with_payload([s EXCEPT !.cursor = @ + r.len], r.kind, 0, start)

\* Lexer::lex_string_literal
lex_string_literal(s) ==
    LET start == s.cursor
        r == scan_string_literal(get_slice_from(start))
    IN  IF r.kind = "Error" THEN lex_error(s)
        ELSE add_token_with_payload([s EXCEPT !.cursor = @ + r.len], r.kind, 0, start)

\* Lexer::lex_verbatim_string_literal
lex_verbatim_string_literal(s, build) ==
    LET start == s.cursor
        t == get_slice_from(start)
        r == scan_verbatim_string_literal(t)
    IN  IF build = "debug" /\ ~verbatim_debug_asserts(t) THEN Panic(s)
        ELSE IF r.panic THEN Panic(s)
        ELSE IF r.kind = "Error" THEN lex_error(s)
        ELSE add_token_with_payload([s EXCEPT !.cursor = @ + r.len], r.kind, 0, start)

\* Lexer::lex_template_string_or_hex_literal
lex_template_string_or_hex_literal(s) == Panic(s)

\* the inner loop of the block comment: step to the byte after the next '*'
RECURSIVE comment_inner_loop(_)
comment_inner_loop(c) ==
    IF c + 1 < text_len
    THEN IF get_byte(c + 1) = "*" THEN c + 2 ELSE comment_inner_loop(c + 1)
    ELSE c

\* the outer loop of the block comment, entered with the cursor c < len.
\* After the inner loop, current() is a bounds-checked read; an iteration
\* that neither moves the cursor nor breaks repeats for ever.
RECURSIVE comment_outer_loop(_, _, _)
comment_outer_loop(s, start, c) ==
    LET c1 == comment_inner_loop(c)
    IN  IF c1 >= text_len THEN Panic([s EXCEPT !.cursor = c1])
        ELSE IF get_byte(c1) = "/"
        THEN [s EXCEPT !.cursor = c1 + 1,
                       !.comments = Append(@, [start |-> start, end |-> c1 + 1])]
        ELSE IF c1 = c THEN Diverge([s EXCEPT !.cursor = c1])
        ELSE comment_outer_loop(s, start, c1)

\* Lexer::lex_comment_or_divide
lex_comment_or_divide(s, build) ==
    LET start == s.cursor
    IN  IF peek(s) = "/"
        THEN LET s1 == advance_to_next_line(s, build)
             IN  IF s1.pc # "loop" THEN s1
                 ELSE [s1 EXCEPT !.comments = Append(@, [start |-> start, end |-> s1.cursor])]
        ELSE IF peek(s) = "*"
        THEN comment_outer_loop(s, start, s.cursor + 1)
        ELSE lex_byte_and_equals(s, start, "Divide", "DivideAssign")

-----------------------------------------------------------------------------
(* Line and column of a token (src/src/lex/tokenized_text.rs) *)

\* the binary search of find_line_index: the number of lines that start at
\* or before position
RECURSIVE find_line_search(_, _, _)
find_line_search(position, left, right) ==
    IF left < right
    THEN LET mid == (left + right) \div 2
         IN  IF lines[mid + 1].start <= position
             THEN find_line_search(position, mid + 1, right)
             ELSE find_line_search(position, left, mid)
    ELSE left

\* a faulty variant of find_line_index that may place a token on the blank
\* final line
find_line_index_on_blank_line(position) ==
    find_line_search(position, 0, Len(lines)) - 1

\* TokenizedText::find_line_index; -1 when checked_sub(1) has no value (the
\* expect panics)
find_line_index(position) ==
    LET left == find_line_search(position, 0, Len(lines))
        index == left - 1
        is_last == index = Len(lines) - 1
    IN  IF left = 0 THEN -1
        ELSE IF is_last /\ index # 0 /\ last_line_is_inserted THEN index - 1
        ELSE index

\* TokenizedText::get_column_number
get_column_number(token) ==
    tokens[token + 1].start + lines[find_line_index(tokens[token + 1].start) + 1].start + 1

\* TokenizedText::get_line_number
get_line_number(token) == find_line_index(tokens[token + 1].start) + 1

\* TokenizedText::get_loc
get_loc(token) == <<get_line_number(token), get_column_number(token)>>

-----------------------------------------------------------------------------
(* Lexer::lex as a state machine: make_lines, lex_file_start, one step of   *)
(* the dispatch loop per action, lex_file_end.                              *)

Builds == {"debug", "release"}

\* Lexer::new
LexerNew ==
    /\ cursor = 0
    /\ line_index = 0
    /\ tokens = <<>>
    /\ lines = <<>>
    /\ comments = <<>>
    /\ diagnostics = <<>>
    /\ last_line_is_inserted = FALSE
    /\ open_delimiters = <<>>
    /\ has_leading_space = FALSE
    /\ has_mismatched_brackets = FALSE

\* no find_next call and no ChunkedIndexVec of its own
FindIdle == query = <<>> /\ answer = <<>>

ArenaIdle ==
    /\ a_len = 0
    /\ a_chunks = <<>>
    /\ a_returned = <<>>
    /\ a_written = <<>>
    /\ apc = "idle"

\* no parser runs
ParserIdle ==
    /\ input = <<>>
    /\ events = <<>>
    /\ p_cursor = 0
    /\ depth = 0
    /\ stack = <<>>
    /\ last_statement_start = 0
    /\ ppc = "idle"

InitLex ==
    /\ text \in LexInputs
    /\ LexerNew
    /\ lpc = "make_lines"
    /\ locs = <<>>
    /\ ParserIdle
    /\ FindIdle
    /\ ArenaIdle

\* the lexer's state becomes s
LexCommit(s) ==
    /\ cursor' = s.cursor
    /\ line_index' = s.line_index
    /\ tokens' = s.tokens
    /\ lines' = s.lines
    /\ comments' = s.comments
    /\ diagnostics' = s.diagnostics
    /\ last_line_is_inserted' = s.last_line_is_inserted
    /\ open_delimiters' = s.open_delimiters
    /\ has_leading_space' = s.has_leading_space
    /\ has_mismatched_brackets' = s.has_mismatched_brackets
    /\ lpc' = s.pc
    /\ UNCHANGED <<text, locs, parseVars, findVars, arenaVars>>

\* the dispatch loop is at a byte of class d
Dispatching(d) ==
    /\ lpc = "loop"
    /\ cursor < text_len
    /\ DISPATCH_TABLE(get_byte(cursor)) \in d

MakeLines ==
    /\ lpc = "make_lines"
    /\ LexCommit([make_lines(LexState) EXCEPT !.pc = "file_start"])

LexFileStart ==
    /\ lpc = "file_start"
    /\ \E build \in Builds :
         LET s == lex_file_start(LexState, build)
         IN  LexCommit(IF s.pc = "file_start" THEN [s EXCEPT !.pc = "loop"] ELSE s)

LexKeywordOrIdentifier ==
    /\ Dispatching({"IdentifierStart"})
    /\ LexCommit(lex_keyword_or_identifier(LexState))

LexNumberLiteralOrDot ==
    /\ Dispatching({"Dot", "DigitZero", "DigitNonZero"})
    /\ LexCommit(lex_number_literal_or_dot(LexState))

LexStringLiteral ==
    /\ Dispatching({"Quote"})
    /\ LexCommit(lex_string_literal(LexState))

LexVerbatimStringLiteral ==
    /\ Dispatching({"At"})
    /\ \E build \in Builds : LexCommit(lex_verbatim_string_literal(LexState, build))

LexTemplateStringOrHexLiteral ==
    /\ Dispatching({"Dollar"})
    /\ LexCommit(lex_template_string_or_hex_literal(LexState))

LexHorizontalWhitespace ==
    /\ Dispatching({"HorizontalSpace"})
    /\ LexCommit(lex_horizontal_whitespace(LexState))

LexVerticalWhitespace ==
    /\ Dispatching({"NewLine"})
    /\ \E build \in Builds : LexCommit(lex_vertical_whitespace(LexState, build))

LexCr ==
    /\ Dispatching({"Cr"})
    /\ \E build \in Builds : LexCommit(lex_cr(LexState, build))

LexCommentOrDivide ==
    /\ Dispatching({"Slash"})
    /\ \E build \in Builds : LexCommit(lex_comment_or_divide(LexState, build))

\* Dispatch::Hash => todo!("hex literal + directives")
LexHash ==
    /\ Dispatching({"Hash"})
    /\ LexCommit(Panic(LexState))

LexAccessor ==
    /\ Dispatching({"BracketOpen"})
    /\ LexCommit(lex_accessor(LexState))

LexOpenDelimiter ==
    /\ Dispatching({"ParenOpen", "BraceOpen"})
    /\ LexCommit(lex_open_delimiter(LexState,
           IF get_byte(cursor) = "(" THEN "LeftParen" ELSE "LeftBrace"))

LexCloseDelimiter ==
    /\ Dispatching({"BracketClose", "ParenClose", "BraceClose"})
    /\ LexCommit(lex_close_delimiter(LexState,
           CASE get_byte(cursor) = "]" -> "RightSquare"
             [] get_byte(cursor) = ")" -> "RightParen"
             [] OTHER -> "RightBrace"))

LexByte ==
    /\ Dispatching({"Comma", "Colon", "Semicolon"})
    /\ LexCommit(lex_byte(LexState,
           CASE get_byte(cursor) = "," -> "Comma"
             [] get_byte(cursor) = ":" -> "Colon"
             [] OTHER -> "Semicolon"))

LexByteAndEquals ==
    /\ Dispatching({"Exclamation", "Percent", "Caret", "Tilde", "Equal"})
    /\ LET c == get_byte(cursor)
           kind == CASE c = "!" -> "Not" [] c = "%" -> "Modulo" [] c = "^" -> "BitXor"
                     [] c = "~" -> "BitNot" [] OTHER -> "Equals"
           equals_kind == CASE c = "!" -> "NotEquals" [] c = "%" -> "ModuloAssign"
                            [] c = "^" -> "BitXorAssign" [] c = "~" -> "BitNotAssign"
                            [] OTHER -> "Equals"
       IN  LexCommit(lex_byte_and_equals(LexState, cursor, kind, equals_kind))

LexByteTwiceOrEquals ==
    /\ Dispatching({"Ampersand", "Asterisk", "Plus", "Minus", "Pipe"})
    /\ LET c == get_byte(cursor)
           kinds == CASE c = "&" -> <<"BitAnd", "And", "BitAndAssign">>
                      [] c = "*" -> <<"Multiply", "Power", "MultiplyAssign">>
                      [] c = "+" -> <<"Plus", "PlusPlus", "PlusAssign">>
                      [] c = "-" -> <<"Minus", "MinusMinus", "MinusAssign">>
                      [] OTHER -> <<"BitOr", "Or", "BitOrAssign">>
       IN  LexCommit(lex_byte_twice_or_equals(LexState, kinds[1], kinds[2], kinds[3]))

LexLessThan ==
    /\ Dispatching({"LessThan"})
    /\ LexCommit(lex_less_than(LexState))

LexGreaterThan ==
    /\ Dispatching({"GreaterThan"})
    /\ LexCommit(lex_greater_than(LexState))

LexQuestion ==
    /\ Dispatching({"Question"})
    /\ LexCommit(lex_question(LexState))

\* Dispatch::Unicode => todo!("unicode")
LexUnicode ==
    /\ Dispatching({"Unicode"})
    /\ LexCommit(Panic(LexState))

LexError ==
    /\ Dispatching({"Error"})
    /\ LexCommit(lex_error(LexState))

LexFileEnd ==
    /\ lpc = "loop"
    /\ ~(cursor < text_len)
    /\ \E build \in Builds : LexCommit(lex_file_end(LexState, build))

\* TokenizedText::dump of the lexer's output: get_loc of every token, in
\* index order
Dump ==
    /\ lpc = "done"
    /\ locs = <<>>
    /\ IF \E i \in 1..Len(tokens) : find_line_index(tokens[i].start) = -1
       THEN lpc' = "abort" /\ locs' = locs
       ELSE lpc' = lpc /\ locs' = [i \in 1..Len(tokens) |-> get_loc(i - 1)]
    /\ UNCHANGED <<text, cursor, line_index, tokens, lines, comments, diagnostics,
                   last_line_is_inserted, open_delimiters, has_leading_space,
                   has_mismatched_brackets, parseVars, findVars, arenaVars>>

LexNext ==
    \/ MakeLines
    \/ LexFileStart
    \/ LexKeywordOrIdentifier
    \/ LexNumberLiteralOrDot
    \/ LexStringLiteral
    \/ LexVerbatimStringLiteral
    \/ LexTemplateStringOrHexLiteral
    \/ LexHorizontalWhitespace
    \/ LexVerticalWhitespace
    \/ LexCr
    \/ LexCommentOrDivide
    \/ LexHash
    \/ LexAccessor
    \/ LexOpenDelimiter
    \/ LexCloseDelimiter
    \/ LexByte
    \/ LexByteAndEquals
    \/ LexByteTwiceOrEquals
    \/ LexLessThan
    \/ LexGreaterThan
    \/ LexQuestion
    \/ LexUnicode
    \/ LexError
    \/ LexFileEnd
    \/ Dump

SpecLex == InitLex /\ [][LexNext]_vars

-----------------------------------------------------------------------------
(* The parser (src/src/parse/parser.rs). A handler is an operator from the  *)
(* parser's state, as a record, to its state after the handler. The stack   *)
(* holds the kinds of its State records, the top last (has_error is never   *)
(* written after push_state sets it to false).                              *)

ParseState ==
    [cursor |-> p_cursor, events |-> events, depth |-> depth, stack |-> stack,
     last_statement_start |-> last_statement_start, pc |-> ppc]

\* the fault of tokens.get(cursor) past the last token: a failed debug
\* assertion in a debug build, an unchecked read in a release build
Fault(p, build) == IF build = "debug" THEN Panic(p) ELSE Undefined(p)

\* the cursor is at a token of the input
InRange(p) == p.cursor < Len(input)

\* TokenizedText::get_kind
get_kind(token) == input[token + 1]

\* Parser::current, for a cursor in range
current(p) == get_kind(p.cursor)

\* TokenKind::is_prefix_operator
is_prefix_operator(kind) ==
    kind \in {"Plus", "Minus", "Not", "BitNot", "PlusPlus", "MinusMinus", "New"}

\* TokenKind::is_postfix_operator
is_postfix_operator(kind) == kind \in {"PlusPlus", "MinusMinus"}

\* TokenKind::is_binary_operator
is_binary_operator(kind) ==
    kind \in {"Equals", "Multiply", "Divide", "Plus", "Minus", "Modulo", "LeftShift",
              "RightShift", "BitAnd", "BitXor", "BitOr", "NullCoalesce"}

\* impl From<TokenKind> for TokenPrecedence, as TokenPrecedence::precedence
TokenPrecedence(kind) ==
    CASE kind = "Identifier" -> 1
      [] kind \in {"RealLiteral", "IntegerLiteral"} -> 1
      [] is_prefix_operator(kind) \/ is_postfix_operator(kind) \/ is_binary_operator(kind) -> 2
      [] kind \in {"LeftParen", "LeftSquare"} -> 3
      [] kind = "Dot" -> 4
      [] kind = "Comma" -> 5
      [] kind \in {"RightParen", "RightSquare"} -> 6
      [] kind = "LeftBrace" -> 7
      [] kind \in {"Semicolon", "FileEnd"} -> 8
      [] kind = "RightBrace" -> 10
      [] OTHER -> 0

\* ENUM_MEMBER_LIST
ENUM_MEMBER_LIST ==
    [item_state |-> "EnumItem", loop_state |-> "EnumLoop", end_state |-> "EnumEnd",
     item_kind |-> "EnumMember", separator |-> "Comma", close_token |-> "RightBrace"]

Event(type, node, token, token_kind) ==
    [type |-> type, node |-> node, token |-> token, token_kind |-> token_kind]

\* Parser::push_state
push_state(p, kind) == [p EXCEPT !.stack = Append(@, kind)]

\* Parser::push_sequence: pushed in reverse, so that states[1] is on top
RECURSIVE push_sequence(_, _)
push_sequence(p, states) ==
    IF states = <<>> THEN p
    ELSE push_sequence(push_state(p, states[Len(states)]),
                       SubSeq(states, 1, Len(states) - 1))

\* Parser::pop_state
pop_state(p) ==
    IF p.stack = <<>> THEN Panic(p)
    ELSE [p EXCEPT !.stack = SubSeq(@, 1, Len(@) - 1)]

\* Parser::emit_start
emit_start(p, kind) ==
    [p EXCEPT !.events = Append(@, Event("Start", kind, -1, "")),
              !.depth = @ + 1]

\* a faulty variant of emit_end that pushes no End event
emit_end_no_event(p) == p

\* Parser::emit_end: checked_sub's result is dropped, depth keeps its value
emit_end(p) ==
    LET p1 == [p EXCEPT !.events = Append(@, Event("End", "", -1, ""))]
    IN  IF p1.depth - 1 < 0 THEN Panic(p1) ELSE p1

\* Parser::emit_leaf
emit_leaf(p, token) ==
    [p EXCEPT !.events = Append(@, Event("Leaf", "", token, get_kind(token)))]

\* Parser::emit_unexpected
emit_unexpected(p, token) ==
    [p EXCEPT !.events = Append(@, Event("Unexpected", "", token, get_kind(token)))]

\* Parser::emit_missing
emit_missing(p, kind) ==
    [p EXCEPT !.events = Append(@, Event("Missing", kind, -1, ""))]

\* Parser::eat
eat(p) == [emit_leaf(p, p.cursor) EXCEPT !.cursor = @ + 1]

\* Parser::try_eat, for a cursor in range: the state and the result
try_eat(p, token_kind) ==
    IF current(p) = token_kind
    THEN [p |-> eat(p), ok |-> TRUE]
    ELSE [p |-> p, ok |-> FALSE]

\* Parser::eat_or_panic
eat_or_panic(p, token_kind, build) ==
    IF ~InRange(p) THEN Fault(p, build)
    ELSE LET r == try_eat(p, token_kind)
         IN  IF r.ok THEN r.p ELSE Panic(p)

\* Parser::eat_expect
eat_expect(p, token_kind, build) ==
    IF ~InRange(p) THEN Fault(p, build)
    ELSE LET r == try_eat(p, token_kind)
         IN  IF r.ok THEN r.p
             ELSE [emit_unexpected(p, p.cursor) EXCEPT !.cursor = @ + 1]

\* the scan of eat_or_recover from a cursor c in range: where it stops and
\* whether it stopped at token_kind
RECURSIVE recover_scan(_, _)
recover_scan(c, token_kind) ==
    IF get_kind(c) = "FileEnd" THEN [cursor |-> c, recovered |-> FALSE]
    ELSE IF get_kind(c) = token_kind THEN [cursor |-> c, recovered |-> TRUE]
    ELSE IF TokenPrecedence(get_kind(c)) >= TokenPrecedence(token_kind)
         THEN [cursor |-> c, recovered |-> FALSE]
    ELSE recover_scan(c + 1, token_kind)

\* a faulty variant of emit_unexpected_range that leaves out the first token
RECURSIVE emit_unexpected_range_without_first(_, _, _)
emit_unexpected_range_without_first(p, from, to) ==
    IF from + 1 >= to THEN p
    ELSE emit_unexpected_range_without_first(emit_unexpected(p, from + 1), from + 1, to)

\* the loop of eat_or_recover over the skipped tokens start..cursor
RECURSIVE emit_unexpected_range(_, _, _)
emit_unexpected_range(p, from, to) ==
    IF from >= to THEN p
    ELSE emit_unexpected_range(emit_unexpected(p, from), from + 1, to)

\* a faulty variant of eat_or_recover that leaves the cursor where the scan
\* stopped when the recovery fails
eat_or_recover_no_rewind(p, token_kind, build) ==
    IF ~InRange(p) THEN [p |-> Fault(p, build), ok |-> FALSE]
    ELSE IF current(p) = token_kind THEN [p |-> eat(p), ok |-> TRUE]
    ELSE LET start == p.cursor
             r == recover_scan(start, token_kind)
         IN  IF r.recovered
             THEN [p |-> eat([emit_unexpected_range(p, start, r.cursor)
                                EXCEPT !.cursor = r.cursor]),
                   ok |-> TRUE]
             ELSE [p |-> [p EXCEPT !.cursor = r.cursor], ok |-> FALSE]

\* Parser::eat_or_recover: the state and the result
eat_or_recover(p, token_kind, build) ==
    IF ~InRange(p) THEN [p |-> Fault(p, build), ok |-> FALSE]
    ELSE IF current(p) = token_kind THEN [p |-> eat(p), ok |-> TRUE]
    ELSE LET start == p.cursor
             r == recover_scan(start, token_kind)
         IN  IF r.recovered
             THEN [p |-> eat([emit_unexpected_range(p, start, r.cursor)
                                EXCEPT !.cursor = r.cursor]),
                   ok |-> TRUE]
             ELSE [p |-> p, ok |-> FALSE]


\* Parser::statement_loop
statement_loop(p, build) ==
    IF ~InRange(p) THEN Fault(p, build)
    ELSE IF current(p) \in {"RightBrace", "FileEnd"}
         THEN pop_state(p)
         ELSE push_state(p, "Statement")

\* a faulty variant of statement that leaves a token that starts no
\* statement where it is
statement_ignores_unknown(p, build) ==
    LET p1 == [pop_state(p) EXCEPT !.last_statement_start = Len(p.events)]
    IN  IF ~InRange(p1) THEN Fault(p1, build)
        ELSE IF current(p1) = "LeftBrace" THEN push_state(p1, "BlockStart")
        ELSE IF current(p1) = "Enum" THEN push_state(p1, "EnumStart")
        ELSE p1

\* Parser::statement
statement(p, build) ==
    LET p1 == [pop_state(p) EXCEPT !.last_statement_start = Len(p.events)]
    IN  IF ~InRange(p1) THEN Fault(p1, build)
        ELSE IF current(p1) = "LeftBrace" THEN push_state(p1, "BlockStart")
        ELSE IF current(p1) = "Enum" THEN push_state(p1, "EnumStart")
        ELSE [emit_unexpected(p1, p1.cursor) EXCEPT !.cursor = @ + 1]

\* Parser::block_start
block_start(p, build) ==
    LET p1 == eat_or_panic(emit_start(pop_state(p), "Block"), "LeftBrace", build)
    IN  IF p1.pc # "run" THEN p1
        ELSE push_sequence(p1, <<"StatementLoop", "BlockEnd">>)

\* Parser::block_end
block_end(p, build) ==
    LET p1 == eat_or_panic(pop_state(p), "RightBrace", build)
    IN  IF p1.pc # "run" THEN p1 ELSE emit_end(p1)

\* Parser::push_list_start
push_list_start(p, kind, build) ==
    LET p1 == push_sequence(p, <<kind.item_state, kind.loop_state, kind.end_state>>)
    IN  IF ~InRange(p1) THEN Fault(p1, build)
        ELSE IF current(p1) = kind.separator THEN emit_missing(p1, kind.item_kind)
        ELSE p1

\* a faulty variant of list_separators that eats the separators without a
\* Missing event
RECURSIVE list_separators_no_missing(_, _, _)
list_separators_no_missing(p, kind, build) ==
    IF ~InRange(p) THEN Fault(p, build)
    ELSE IF current(p) = kind.separator
         THEN list_separators_no_missing(eat(p), kind, build)
         ELSE p

\* the loop of list_loop over the separators that follow a separator
RECURSIVE list_separators(_, _, _)
list_separators(p, kind, build) ==
    IF ~InRange(p) THEN Fault(p, build)
    ELSE IF current(p) = kind.separator
         THEN list_separators(eat(emit_missing(p, kind.item_kind)), kind, build)
         ELSE p

\* a faulty variant of list_loop that expects an item after every separator
list_loop_no_trailing_separator(p, kind, build) ==
    LET this_state == p.stack[Len(p.stack)]
        p1 == pop_state(p)
    IN  IF ~InRange(p1) THEN Fault(p1, build)
        ELSE LET r == try_eat(p1, kind.separator)
             IN  IF r.ok
                 THEN LET p2 == list_separators(r.p, kind, build)
                      IN  IF p2.pc # "run" THEN p2
                          ELSE push_sequence(p2, <<kind.item_state, this_state>>)
                 ELSE eat_or_recover(p1, kind.close_token, build).p

\* Parser::list_loop
list_loop(p, kind, build) ==
    LET this_state == p.stack[Len(p.stack)]
        p1 == pop_state(p)
    IN  IF ~InRange(p1) THEN Fault(p1, build)
        ELSE LET r == try_eat(p1, kind.separator)
             IN  IF r.ok
                 THEN LET p2 == list_separators(r.p, kind, build)
                      IN  IF p2.pc # "run" THEN p2
                          ELSE IF current(p2) # kind.close_token
                               THEN push_sequence(p2, <<kind.item_state, this_state>>)
                               ELSE p2
                 ELSE eat_or_recover(p1, kind.close_token, build).p

\* Parser::enum_start
enum_start(p, build) ==
    LET p1 == eat_or_panic(emit_start(pop_state(p), "EnumDecl"), "Enum", build)
        p2 == IF p1.pc # "run" THEN p1 ELSE eat_expect(p1, "Identifier", build)
        p3 == IF p2.pc # "run" THEN p2 ELSE emit_start(p2, "EnumBlock")
        r == eat_or_recover(p3, "LeftBrace", build)
    IN  IF p3.pc # "run" THEN p3
        ELSE IF r.p.pc # "run" THEN r.p
        ELSE IF ~r.ok
             THEN LET e1 == emit_end(r.p)
                  IN  IF e1.pc # "run" THEN e1 ELSE emit_end(e1)
             ELSE push_list_start(r.p, ENUM_MEMBER_LIST, build)

\* Parser::enum_item
enum_item(p, build) ==
    LET p1 == emit_start(pop_state(p), "EnumMember")
    IN  IF ~InRange(p1) THEN Fault(p1, build)
        ELSE emit_end(try_eat(p1, "Identifier").p)

\* a faulty variant of enum_end whose failed recovery goes back one token
\* too far
enum_end_rewinds_too_far(p, build) ==
    LET r == eat_or_recover(pop_state(p), "RightBrace", build)
        p1 == IF r.ok THEN r.p ELSE [r.p EXCEPT !.cursor = @ - 1]
    IN  IF p1.pc # "run" THEN p1
        ELSE LET e1 == emit_end(p1)
             IN  IF e1.pc # "run" THEN e1 ELSE emit_end(e1)

\* Parser::enum_end
enum_end(p, build) ==
    LET r == eat_or_recover(pop_state(p), "RightBrace", build)
    IN  IF r.p.pc # "run" THEN r.p
        ELSE LET e1 == emit_end(r.p)
             IN  IF e1.pc # "run" THEN e1 ELSE emit_end(e1)

-----------------------------------------------------------------------------
(* Parser::parse as a state machine: the entry, one dispatch of the work    *)
(* stack per action, the return.                                            *)

\* the token kinds that decide a branch of the parser
ParserKinds == {"Identifier", "Comma", "LeftBrace", "RightBrace", "Enum", "Semicolon"}
\* the token kinds of blocks and enum declarations
GrammarKinds == {"Identifier", "Comma", "LeftBrace", "RightBrace", "Enum"}

\* Recognizer of the streams of nested blocks { ... } and enum declarations
\* enum Id { Id (, Id)* [,] }: the position after the construct that starts
\* at i, or 0 when none does.
At(ts, i) == IF i >= 1 /\ i <= Len(ts) THEN ts[i] ELSE "None"

RECURSIVE MembersEnd(_, _)
MembersEnd(ts, i) ==
    \* at i: an Identifier; then '}' , or ',' '}' , or ',' and more members
    IF At(ts, i) # "Identifier" THEN 0
    ELSE IF At(ts, i + 1) = "RightBrace" THEN i + 2
    ELSE IF At(ts, i + 1) = "Comma"
         THEN IF At(ts, i + 2) = "RightBrace" THEN i + 3 ELSE MembersEnd(ts, i + 2)
    ELSE 0

RECURSIVE StatementsEnd(_, _)
StatementEnd(ts, i) ==
    IF At(ts, i) = "LeftBrace"
    THEN LET j == StatementsEnd(ts, i + 1)
         IN  IF j # 0 /\ At(ts, j) = "RightBrace" THEN j + 1 ELSE 0
    ELSE IF At(ts, i) = "Enum" /\ At(ts, i + 1) = "Identifier" /\ At(ts, i + 2) = "LeftBrace"
    THEN MembersEnd(ts, i + 3)
    ELSE 0

StatementsEnd(ts, i) ==
    IF At(ts, i) \in {"LeftBrace", "Enum"}
    THEN LET j == StatementEnd(ts, i)
         IN  IF j = 0 THEN 0 ELSE StatementsEnd(ts, j)
    ELSE i

\* ts is a sequence of well-formed blocks and enum declarations
WellFormed(ts) == StatementsEnd(ts, 1) = Len(ts) + 1

\* n members, each an Identifier followed by a Comma
RECURSIVE Members(_)
Members(n) == IF n = 0 THEN <<>> ELSE Members(n - 1) \o <<"Identifier", "Comma">>

\* the declaration enum Id { Id, ..., Id, } of n members
TrailingCommaEnum(n) ==
    <<"Enum", "Identifier", "LeftBrace">> \o Members(n) \o <<"RightBrace">>

ParserInputs ==
    Strs(ParserKinds, MaxTokens)
        \cup {ts \in Strs(GrammarKinds, MaxWellFormed) : WellFormed(ts)}
        \cup {TrailingCommaEnum(n) : n \in 1..MaxMembers}

\* the tokens between FileStart and FileEnd
Body == SubSeq(input, 2, Len(input) - 1)

\* the index of the FileEnd token
FileEndIndex == Len(input) - 1

\* no lexer runs
LexerIdle ==
    /\ text = <<>>
    /\ LexerNew
    /\ lpc = "idle"
    /\ locs = <<>>

\* Parser::new
InitParse ==
    /\ \E ts \in ParserInputs : input = <<"FileStart">> \o ts \o <<"FileEnd">>
    /\ events = <<>>
    /\ p_cursor = 0
    /\ depth = 0
    /\ stack = <<>>
    /\ last_statement_start = 0
    /\ ppc = "start"
    /\ LexerIdle
    /\ FindIdle
    /\ ArenaIdle

\* the parser's state becomes p
ParseCommit(p) ==
    /\ p_cursor' = p.cursor
    /\ events' = p.events
    /\ depth' = p.depth
    /\ stack' = p.stack
    /\ last_statement_start' = p.last_statement_start
    /\ ppc' = p.pc
    /\ UNCHANGED <<input, lexVars, locs, findVars, arenaVars>>

\* the work stack's top is a state of kind k
Top(k) ==
    /\ ppc = "run"
    /\ stack # <<>>
    /\ stack[Len(stack)] = k

\* the entry of Parser::parse
ParseEnter ==
    /\ ppc = "start"
    /\ \E build \in Builds :
         IF build = "debug" /\ get_kind(p_cursor) # "FileStart"
         THEN ParseCommit(Panic(ParseState))
         ELSE ParseCommit(push_state([ParseState EXCEPT !.cursor = @ + 1, !.pc = "run"],
                                     "StatementLoop"))

StatementLoop ==
    /\ Top("StatementLoop")
    /\ \E build \in Builds : ParseCommit(statement_loop(ParseState, build))

Statement ==
    /\ Top("Statement")
    /\ \E build \in Builds : ParseCommit(statement(ParseState, build))

BlockStart ==
    /\ Top("BlockStart")
    /\ \E build \in Builds : ParseCommit(block_start(ParseState, build))

BlockEnd ==
    /\ Top("BlockEnd")
    /\ \E build \in Builds : ParseCommit(block_end(ParseState, build))

EnumStart ==
    /\ Top("EnumStart")
    /\ \E build \in Builds : ParseCommit(enum_start(ParseState, build))

EnumLoop ==
    /\ Top("EnumLoop")
    /\ \E build \in Builds : ParseCommit(list_loop(ParseState, ENUM_MEMBER_LIST, build))

EnumItem ==
    /\ Top("EnumItem")
    /\ \E build \in Builds : ParseCommit(enum_item(ParseState, build))

EnumEnd ==
    /\ Top("EnumEnd")
    /\ \E build \in Builds : ParseCommit(enum_end(ParseState, build))

\* the return of Parser::parse: the work stack is empty
ParseReturn ==
    /\ ppc = "run"
    /\ stack = <<>>
    /\ \E build \in Builds :
         IF build = "debug" /\ (~InRange(ParseState) \/ current(ParseState) # "FileEnd")
         THEN ParseCommit(Panic(ParseState))
         ELSE ParseCommit([ParseState EXCEPT !.pc = "done"])

ParseNext ==
    \/ ParseEnter
    \/ StatementLoop
    \/ Statement
    \/ BlockStart
    \/ BlockEnd
    \/ EnumStart
    \/ EnumLoop
    \/ EnumItem
    \/ EnumEnd
    \/ ParseReturn

SpecParse == InitParse /\ [][ParseNext]_vars

-----------------------------------------------------------------------------
(* Parser::eat_or_recover called on its own: one call, at any token of a    *)
(* stream, for the tokens the parser expects with it.                       *)

\* token kinds of every rank of the precedence ladder that a stream can have
RecoverKinds ==
    {"Identifier", "Plus", "LeftParen", "Dot", "Comma", "RightParen", "LeftBrace",
     "Semicolon", "Enum", "If", "RightBrace"}

\* the token kinds eat_or_recover is called with (enum_start, list_loop,
\* enum_end)
ExpectedKinds == {"LeftBrace", ENUM_MEMBER_LIST.close_token}

\* the parser stands in an EnumBlock, before a call of eat_or_recover
InitRecover ==
    /\ \E ts \in Strs(RecoverKinds, MaxRecoverLen) :
          input = <<"FileStart">> \o ts \o <<"FileEnd">>
    /\ p_cursor \in 1..(Len(input) - 1)
    /\ events = <<Event("Start", "EnumBlock", -1, "")>>
    /\ depth = 1
    /\ stack = <<>>
    /\ last_statement_start = 0
    /\ ppc = "recover"
    /\ \E token_kind \in ExpectedKinds :
          query = [op |-> "eat_or_recover", token_kind |-> token_kind,
                   start |-> p_cursor, events |-> events]
    /\ answer = <<>>
    /\ LexerIdle
    /\ ArenaIdle

\* one call of eat_or_recover
EatOrRecover ==
    /\ ppc = "recover"
    /\ answer = <<>>
    /\ \E build \in Builds :
         LET r == eat_or_recover(ParseState, query.token_kind, build)
         IN  /\ p_cursor' = r.p.cursor
             /\ events' = r.p.events
             /\ ppc' = r.p.pc
             /\ answer' = <<r.ok>>
    /\ UNCHANGED <<input, depth, stack, last_statement_start, query, lexVars, locs,
                   arenaVars>>

SpecRecover == InitRecover /\ [][EatOrRecover]_vars

-----------------------------------------------------------------------------
(* SourceText::find_next called on its own (src/src/source_text.rs) *)

\* SourceText::find_next on a target without SSE2, where index_of is
\* index_of_scalar; -1 for None
find_next_scalar(byte, start) ==
    LET offset == index_of_scalar(byte, get_slice_from(start))
    IN  IF offset = -1 THEN -1 ELSE start + offset

\* the targets of index_of
Targets == {"sse2", "scalar"}

\* the buffer of length n with the needle at the offsets of at, and another
\* byte elsewhere
Haystack(n, at) == [i \in 1..n |-> IF (i - 1) \in at THEN "LF" ELSE "a"]

\* the buffers searched: up to two needles, anywhere
FindInputs ==
    {Haystack(n, {}) : n \in 0..MaxFindLen}
        \cup {Haystack(n, {i, j}) : n \in 1..MaxFindLen, i \in 0..(MaxFindLen - 1),
                                    j \in 0..(MaxFindLen - 1)}

InitFind ==
    /\ text \in FindInputs
    /\ \E start \in 0..Len(text) :
          query = [op |-> "find_next", byte |-> "LF", start |-> start, target |-> "none"]
    /\ answer = <<>>
    /\ LexerNew
    /\ lpc = "idle"
    /\ locs = <<>>
    /\ ParserIdle
    /\ ArenaIdle

\* one call of find_next, on either target
FindNext ==
    /\ query # <<>> /\ query.op = "find_next"
    /\ answer = <<>>
    /\ \E target \in Targets :
         /\ query' = [query EXCEPT !.target = target]
         /\ answer' = <<IF target = "sse2" THEN find_next(query.byte, query.start)
                         ELSE find_next_scalar(query.byte, query.start)>>
    /\ UNCHANGED <<text, lexVars, locs, parseVars, arenaVars>>

SpecFind == InitFind /\ [][FindNext]_vars

\* the smallest offset at or after start that has the byte, or -1
FirstAtOrAfter(byte, start) ==
    LET at == {i \in start..(text_len - 1) : text[i + 1] = byte}
    IN  IF at = {} THEN -1 ELSE CHOOSE i \in at : \A j \in at : i <= j

\* C20: find_next(byte, start) returns the smallest offset i >= start with
\* buffer[i] = byte, or None when there is none; the 16-byte chunked search
\* and the scalar search return the same result for every buffer, byte and
\* start <= len.
C20_FindNextIsFirst ==
    (query # <<>> /\ query.op = "find_next" /\ answer # <<>>) =>
        answer[1] = FirstAtOrAfter(query.byte, query.start)

\* the chunked search went through a whole chunk and found the first of two
\* needles of a later chunk
C20_Witness ==
    /\ query # <<>> /\ query.op = "find_next" /\ query.target = "sse2"
    /\ answer # <<>> /\ answer[1] >= query.start + SSE_CHUNK
    /\ text_len >= query.start + 2 * SSE_CHUNK
    /\ \E j \in (answer[1] + 1)..(query.start + 2 * SSE_CHUNK - 1) : text[j + 1] = "LF"

-----------------------------------------------------------------------------
(* SourceText::get_span and TextSpan::as_slice called on their own. A      *)
(* TextSpan is the offset of its pointer in the buffer and its length.      *)

\* SourceText::get_slice(start..end), for start <= end <= len
get_slice(start, end) == SubSeq(text, start + 1, end)

\* SourceText::get_span, for start <= end <= len
get_span(start, end) == [ptr |-> start, len |-> end]

\* the bytes a read past the end of the buffer can give
StrayBytes == {"NUL", "UNI"}

\* TextSpan::as_slice, the slices from_raw_parts(ptr, len) can give: the
\* bytes of the buffer from ptr on and, when ptr + len is past the end of
\* the buffer, whatever bytes lie behind it
as_slice(span) ==
    IF span.ptr + span.len <= text_len
    THEN {SubSeq(text, span.ptr + 1, span.ptr + span.len)}
    ELSE {SubSeq(text, span.ptr + 1, text_len) \o stray :
             stray \in [1..(span.ptr + span.len - text_len) -> StrayBytes]}

\* SourceText::new on a buffer, and the arguments of one get_span
InitSpan ==
    /\ text \in Strs({"a", "b"}, MaxSpanLen)
    /\ \E start \in 0..Len(text), end \in 0..Len(text) :
          /\ start <= end
          /\ query = [op |-> "get_span", start |-> start, end |-> end]
    /\ answer = <<>>
    /\ LexerNew
    /\ lpc = "idle"
    /\ locs = <<>>
    /\ ParserIdle
    /\ ArenaIdle

\* get_span(start, end).as_slice()
GetSpan ==
    /\ query # <<>> /\ query.op = "get_span"
    /\ answer = <<>>
    /\ \E slice \in as_slice(get_span(query.start, query.end)) : answer' = <<slice>>
    /\ UNCHANGED <<text, lexVars, locs, parseVars, arenaVars, query>>

SpecSpan == InitSpan /\ [][GetSpan]_vars

\* C37: for all 0 <= start <= end <= len, get_span(start, end).as_slice()
\* is the byte sequence of get_slice(start..end): the span has the length
\* end - start and never reaches past the buffer.
C37_SpanIsSlice ==
    (query # <<>> /\ query.op = "get_span" /\ answer # <<>>) =>
        /\ answer[1] = get_slice(query.start, query.end)
        /\ Len(answer[1]) = query.end - query.start
        /\ query.start + Len(answer[1]) <= text_len

-----------------------------------------------------------------------------
(* scan_identifier called on its own (src/src/lex/identifier_lexer.rs), on  *)
(* slices of 16 bytes and more, where the chunk loop runs. A byte is its    *)
(* code, 0..255.                                                            *)

\* a & b
RECURSIVE BitAnd(_, _)
BitAnd(a, b) ==
    IF a = 0 \/ b = 0 THEN 0
    ELSE (a % 2) * (b % 2) + 2 * BitAnd(a \div 2, b \div 2)

\* a faulty variant of HIGH_LUT whose entry of 'P'..'_' does not have the
\* bit of '_'
HIGH_LUT_without_underscore ==
    <<\b00000000, \b00000000, \b00000000, \b00000010,
      \b00000100, \b00001000, \b00000100, \b00001000,
      \b10000000, \b10000000, \b10000000, \b10000000,
      \b10000000, \b10000000, \b10000000, \b10000000>>

\* HIGH_LUT
HIGH_LUT ==
    <<\b00000000, \b00000000, \b00000000, \b00000010,
      \b00000100, \b00001001, \b00000100, \b00001000,
      \b10000000, \b10000000, \b10000000, \b10000000,
      \b10000000, \b10000000, \b10000000, \b10000000>>

\* LOW_LUT
LOW_LUT ==
    <<\b10001010, \b10001110, \b10001110, \b10001110,
      \b10001110, \b10001110, \b10001110, \b10001110,
      \b10001110, \b10001110, \b10001100, \b10000100,
      \b10000100, \b10000100, \b10000100, \b10000101>>

\* _mm_shuffle_epi8(lut, index) for one byte: 0 when bit 7 of the index
\* byte is set, the entry of its low four bits otherwise
shuffle_epi8(lut, index) == IF index >= 128 THEN 0 ELSE lut[(index % 16) + 1]

\* the byte of the mask that scan_identifier_x86 computes for an input byte
nibble_mask(c) ==
    LET low_mask == shuffle_epi8(LOW_LUT, c)
        input_high == BitAnd(c \div 16, 15)
        high_mask == shuffle_epi8(HIGH_LUT, input_high)
    IN  BitAnd(low_mask, high_mask)

\* is_identifier_byte, of a byte code
is_identifier_code(c) ==
    c \in 97..122 \/ c \in 65..90 \/ c = 95 \/ c \in 48..57

\* scan_identifier_scalar, of byte codes
RECURSIVE scan_identifier_scalar_codes(_, _)
scan_identifier_scalar_codes(t, start) ==
    IF start < Len(t) /\ is_identifier_code(t[start + 1])
    THEN scan_identifier_scalar_codes(t, start + 1)
    ELSE start

\* scan_identifier_x86: the loop over the chunks of 16 bytes from i on, then
\* the scalar scan of what is left
RECURSIVE scan_identifier_x86_from(_, _)
scan_identifier_x86_from(t, i) ==
    IF i + 16 <= Len(t)
    THEN LET non_ascii == \E k \in 1..16 : t[i + k] >= 128
             zero == {k \in 0..15 : nibble_mask(t[i + k + 1]) = 0}
         IN  IF non_ascii THEN scan_identifier_scalar_codes(t, i)
             ELSE IF zero # {}
                  THEN i + (CHOOSE k \in zero : \A j \in zero : k <= j)
                  ELSE scan_identifier_x86_from(t, i + 16)
    ELSE scan_identifier_scalar_codes(t, i)

scan_identifier_x86(t) == scan_identifier_x86_from(t, 0)

\* scan_identifier of byte codes, on a target
scan_identifier_codes(t, target) ==
    IF target = "sse2" THEN scan_identifier_x86(t) ELSE scan_identifier_scalar_codes(t, 0)

\* identifier bytes of every row and column of the lookup tables
IdentifierFill == <<97, 90, 48, 95, 112, 57, 65, 122, 79, 106>>

\* the slice of n identifier bytes with the bytes of stops at their offsets
ScanInput(n, stops) ==
    [i \in 1..n |-> IF \E st \in stops : st[1] = i - 1
                     THEN (CHOOSE st \in stops : st[1] = i - 1)[2]
                     ELSE IdentifierFill[((i - 1) % Len(IdentifierFill)) + 1]]

\* the lengths and offsets at the two ends of a chunk of 16 bytes
ChunkEdges == {n \in 0..MaxScanLen : n % 16 \in {0, 1, 15}}

\* the slices scanned: any byte at any one offset, and two bytes that end
\* an identifier at two offsets
ScanInputs ==
    {ScanInput(n, {<<at, c>>}) : n \in ChunkEdges, at \in ChunkEdges, c \in 0..255}
        \cup {ScanInput(MaxScanLen, {<<at, 64>>, <<other, 200>>}) :
                 at \in 0..(MaxScanLen - 1), other \in 0..(MaxScanLen - 1)}

InitScan ==
    /\ \E t \in ScanInputs : query = [op |-> "scan_identifier", text |-> t, target |-> "none"]
    /\ answer = <<>>
    /\ LexerIdle
    /\ ParserIdle
    /\ ArenaIdle

\* one call of scan_identifier, on either target
ScanIdentifier ==
    /\ query # <<>> /\ query.op = "scan_identifier"
    /\ answer = <<>>
    /\ \E target \in Targets :
         /\ query' = [query EXCEPT !.target = target]
         /\ answer' = <<scan_identifier_codes(query.text, target)>>
    /\ UNCHANGED <<text, lexVars, locs, parseVars, arenaVars>>

SpecScan == InitScan /\ [][ScanIdentifier]_vars

\* the length of the longest prefix of t of identifier bytes
IdentifierPrefix(t) ==
    LET stops == {j \in 0..Len(t) : j = Len(t) \/ ~is_identifier_code(t[j + 1])}
    IN  CHOOSE j \in stops : \A k \in stops : j <= k

\* C39: for every byte sequence the scan on chunks of 16 bytes with the
\* nibble lookup tables returns what the scalar scan returns, the length of
\* the longest prefix of bytes in [A-Za-z0-9_]; and the two tables give a
\* non-zero mask for an ASCII byte exactly when the byte is in that class.
C39_ScanIdentifier ==
    /\ (query # <<>> /\ query.op = "scan_identifier" /\ answer # <<>>) =>
           answer[1] = IdentifierPrefix(query.text)
    /\ \A c \in 0..127 : nibble_mask(c) # 0 <=> is_identifier_code(c)

\* the chunk loop went through a chunk and found the end of the identifier
\* in the next one, before another byte that ends it
C39_Witness ==
    /\ query # <<>> /\ query.op = "scan_identifier" /\ query.target = "sse2"
    /\ answer # <<>> /\ answer[1] >= 16 /\ answer[1] < 31
    /\ Len(query.text) >= 32
    /\ \E j \in (answer[1] + 1)..31 : ~is_identifier_code(query.text[j + 1])

-----------------------------------------------------------------------------
(* The packed form of Token (src/src/lex/token.rs): the u32 data holds the  *)
(* kind in bits 0..7, the payload in bits 8..30 and has_space in bit 31. A  *)
(* kind is its discriminant.                                                *)

\* a u32 is its 32 bits, bit 0 the lowest; of a value below 2^31
BitsOf(n) == [i \in 0..31 |-> IF i = 31 THEN 0 ELSE (n \div (2 ^ i)) % 2]

\* the value of a u32 below 2^31
RECURSIVE ValueFrom(_, _)
ValueFrom(bits, i) == IF i > 30 THEN 0 ELSE bits[i] + 2 * ValueFrom(bits, i + 1)

ValueOf(bits) == ValueFrom(bits, 0)

\* a & b, a | b and !a on u32
And32(a, b) == [i \in 0..31 |-> a[i] * b[i]]

Or32(a, b) == [i \in 0..31 |-> IF a[i] = 1 \/ b[i] = 1 THEN 1 ELSE 0]

Not32(a) == [i \in 0..31 |-> 1 - a[i]]

\* a << n and a >> n on u32
Shl32(a, n) == [i \in 0..31 |-> IF i >= n THEN a[i - n] ELSE 0]

Shr32(a, n) == [i \in 0..31 |-> IF i + n <= 31 THEN a[i + n] ELSE 0]

\* Token::KIND_MASK, (1 << 8) - 1
KIND_MASK == 255

\* the discriminants of TokenKind, Error = 0 to Whitespace = 110
TokenKindDiscriminants == 0..110

\* Token::new, the value built
PackedToken_new(kind, has_space, payload, start) ==
    [data |-> Or32(Or32(And32(BitsOf(kind), BitsOf(KIND_MASK)),
                        Shl32(And32(BitsOf(payload), BitsOf(PAYLOAD_MASK)), 8)),
                   Shl32(BitsOf(IF has_space THEN 1 ELSE 0), 31)),
     start |-> start]

\* Token::kind
PackedToken_kind(t) == ValueOf(And32(t.data, BitsOf(KIND_MASK)))

\* Token::payload
PackedToken_payload(t) == ValueOf(And32(Shr32(t.data, 8), BitsOf(PAYLOAD_MASK)))

\* a faulty variant of Token::set_payload that does not clear the old bits
PackedToken_set_payload_keeps_old_bits(t, payload) ==
    [t EXCEPT !.data = Or32(t.data, Shl32(And32(BitsOf(payload), BitsOf(PAYLOAD_MASK)), 8))]

\* Token::set_payload, the value left
PackedToken_set_payload(t, payload) ==
    LET cleared == And32(t.data, Not32(Shl32(BitsOf(PAYLOAD_MASK), 8)))
    IN  [t EXCEPT !.data = Or32(cleared, Shl32(And32(BitsOf(payload), BitsOf(PAYLOAD_MASK)), 8))]

\* Token::has_leading_space
PackedToken_has_leading_space(t) == Shr32(t.data, 31) # BitsOf(0)

\* Token::start
PackedToken_start(t) == t.start

\* debug_assert!(payload < Self::PAYLOAD_MASK) of new and set_payload
PayloadOutOfRange(payload, build) == build = "debug" /\ ~(payload < PAYLOAD_MASK)

\* payloads at the ends of the three bytes of the field, and the first two
\* that the assertion rejects
PayloadSamples == {0, 1, 255, 256, 65535, 65536, PAYLOAD_MASK - 1, PAYLOAD_MASK, PAYLOAD_MASK + 1}

\* starts of tokens
StartSamples == {0, 1, 2147483647}

InitToken ==
    /\ \E kind \in TokenKindDiscriminants, has_space \in BOOLEAN,
          payload \in PayloadSamples, start \in StartSamples, build \in Builds :
         query = [op |-> "Token::new", kind |-> kind, has_space |-> has_space,
                  payload |-> payload, start |-> start, build |-> build, set |-> 0]
    /\ answer = <<>>
    /\ LexerIdle
    /\ ParserIdle
    /\ ArenaIdle

\* the call Token::new(kind, has_space, payload, start)
TokenNew ==
    /\ query # <<>> /\ query.op = "Token::new"
    /\ IF PayloadOutOfRange(query.payload, query.build)
       THEN /\ query' = [query EXCEPT !.op = "abort"]
            /\ answer' = answer
       ELSE /\ query' = [query EXCEPT !.op = "built"]
            /\ answer' = <<PackedToken_new(query.kind, query.has_space, query.payload, query.start)>>
    /\ UNCHANGED <<text, lexVars, locs, parseVars, arenaVars>>

\* one call set_payload(p) on the token built
TokenSetPayload ==
    /\ query # <<>> /\ query.op = "built"
    /\ \E p \in PayloadSamples :
         IF PayloadOutOfRange(p, query.build)
         THEN /\ query' = [query EXCEPT !.op = "abort", !.set = p]
              /\ answer' = answer
         ELSE /\ query' = [query EXCEPT !.op = "set", !.set = p]
              /\ answer' = <<PackedToken_set_payload(answer[1], p)>>
    /\ UNCHANGED <<text, lexVars, locs, parseVars, arenaVars>>

TokenNext == TokenNew \/ TokenSetPayload

SpecToken == InitToken /\ [][TokenNext]_vars

\* C40: after Token::new(kind, has_space, payload, start) with a payload
\* below 2^23 - 1 the accessors kind(), has_leading_space(), payload() and
\* start() return the four arguments; after set_payload(p) with p below
\* 2^23 - 1, payload() returns p and the other three are unchanged.
C40_TokenRoundTrip ==
    /\ (query # <<>> /\ query.op = "built" /\ query.payload < PAYLOAD_MASK) =>
           /\ PackedToken_kind(answer[1]) = query.kind
           /\ PackedToken_has_leading_space(answer[1]) = query.has_space
           /\ PackedToken_payload(answer[1]) = query.payload
           /\ PackedToken_start(answer[1]) = query.start
    /\ (query # <<>> /\ query.op = "set" /\ query.payload < PAYLOAD_MASK
           /\ query.set < PAYLOAD_MASK) =>
           /\ PackedToken_kind(answer[1]) = query.kind
           /\ PackedToken_has_leading_space(answer[1]) = query.has_space
           /\ PackedToken_payload(answer[1]) = query.set
           /\ PackedToken_start(answer[1]) = query.start

\* a token of the last kind, with the space flag and the largest payload,
\* was given a smaller payload with other bits
C40_Witness ==
    /\ query # <<>> /\ query.op = "set"
    /\ query.kind = 110 /\ query.has_space
    /\ query.payload = PAYLOAD_MASK - 1 /\ query.set = 256
    /\ query.start = 1
    /\ PackedToken_payload(answer[1]) = 256

-----------------------------------------------------------------------------
(* The chunked arena (src/src/chunked_index_vec.rs). A chunk is the         *)
(* sequence of its written slots; the slots after them are allocated and    *)
(* not written.                                                             *)

\* Chunk::MAX_SIZE_BYTES
MAX_SIZE_BYTES == 4096

\* size_of::<T>() of the element type of the arena
size_of_T == 1024

\* the largest power of two that is at most n, for n >= 1 (1 << n.ilog2())
RECURSIVE previous_power_of_two(_)
previous_power_of_two(n) == IF n < 2 THEN 1 ELSE 2 * previous_power_of_two(n \div 2)

\* Chunk::capacity
capacity ==
    LET max_elements == MAX_SIZE_BYTES \div size_of_T
    IN  IF max_elements = 0 THEN 0 ELSE previous_power_of_two(max_elements)

\* the number of trailing zero bits of a power of two
RECURSIVE trailing_zeros(_)
trailing_zeros(n) == IF n < 2 THEN 0 ELSE 1 + trailing_zeros(n \div 2)

\* Chunk::index_bits (the capacity is a power of two)
index_bits == trailing_zeros(capacity)

\* 1 << n
RECURSIVE shl1(_)
shl1(n) == IF n = 0 THEN 1 ELSE 2 * shl1(n - 1)

\* ChunkedIndexVec::get_chunk_and_index
get_chunk_and_index(index) ==
    <<index \div shl1(index_bits), index % shl1(index_bits)>>

\* the fields of the ChunkedIndexVec
ArenaState == [len |-> a_len, chunks |-> a_chunks, pc |-> apc]

\* ChunkedIndexVec::push with Chunk::push; id is the handle it returns
push(a, value) ==
    LET id == a.len
        chunk_index == get_chunk_and_index(a.len)[1]
        chunks == IF chunk_index = Len(a.chunks) THEN Append(a.chunks, <<>>)
                  ELSE a.chunks
    IN  IF chunk_index >= Len(chunks) \/ Len(chunks[chunk_index + 1]) >= capacity
        THEN [arena |-> [a EXCEPT !.pc = "abort"], id |-> id]
        ELSE [arena |-> [a EXCEPT !.chunks = [chunks EXCEPT ![chunk_index + 1] = Append(@, value)],
                                  !.len = @ + 1],
              id |-> id]

\* ChunkedIndexVec::get and get_mut reach the slot of id: "ok", or how the
\* call ends otherwise (chunks[chunk_index] is bounds-checked; the slot is
\* read unchecked in a release build)
slot_access(a, id, build) ==
    LET ci == get_chunk_and_index(id)
    IN  IF build = "debug" /\ ~(id < a.len) THEN "abort"
        ELSE IF ci[1] >= Len(a.chunks) THEN "abort"
        ELSE IF ci[2] >= Len(a.chunks[ci[1] + 1])
        THEN (IF build = "debug" THEN "abort" ELSE "ub")
        ELSE "ok"

\* ChunkedIndexVec::get, for a slot that slot_access reaches
get(a, id) ==
    LET ci == get_chunk_and_index(id)
    IN  a.chunks[ci[1] + 1][ci[2] + 1]

\* ChunkedIndexVec::get_mut and a store through the reference
get_mut(a, id, value) ==
    LET ci == get_chunk_and_index(id)
    IN  [a EXCEPT !.chunks[ci[1] + 1][ci[2] + 1] = value]

\* Vec::resize_with(n, Chunk::new)
resize_with(chunks, n) ==
    IF n <= Len(chunks) THEN SubSeq(chunks, 1, n)
    ELSE chunks \o [i \in 1..(n - Len(chunks)) |-> <<>>]

\* a faulty variant of reserve that keeps one chunk too few
reserve_one_chunk_short(a, len) ==
    IF len <= a.len THEN a
    ELSE [a EXCEPT !.chunks = resize_with(@, get_chunk_and_index(len - 1)[1])]

\* ChunkedIndexVec::reserve
reserve(a, len) ==
    IF len <= a.len THEN a
    ELSE [a EXCEPT !.chunks = resize_with(@, get_chunk_and_index(len - 1)[1] + 1)]

\* ChunkedIndexVec::iter with Iter::next, to the end: the (handle, value)
\* pairs in the order next yields them
iter(a) == [i \in 1..a.len |-> <<i - 1, get(a, i - 1)>>]

\* the values stored in the arena
Values == {"v", "w"}

\* ChunkedIndexVec::new
InitArena ==
    /\ a_len = 0
    /\ a_chunks = <<>>
    /\ a_returned = <<>>
    /\ a_written = <<>>
    /\ apc = "run"
    /\ FindIdle
    /\ LexerIdle
    /\ ParserIdle

\* the arena's state becomes a
ArenaCommit(a) ==
    /\ a_len' = a.len
    /\ a_chunks' = a.chunks
    /\ apc' = a.pc
    /\ UNCHANGED <<text, lexVars, locs, parseVars>>

ArenaPush ==
    /\ apc = "run"
    /\ Len(a_returned) < MaxPushes
    /\ \E value \in Values :
         LET r == push(ArenaState, value)
         IN  /\ ArenaCommit(r.arena)
             /\ a_returned' = IF r.arena.pc = "run" THEN Append(a_returned, r.id)
                               ELSE a_returned
             /\ a_written' = IF r.arena.pc = "run" THEN Append(a_written, value)
                              ELSE a_written
    /\ query' = <<>> /\ answer' = <<>>

ArenaReserve ==
    /\ apc = "run"
    /\ \E len \in 0..MaxReserve : ArenaCommit(reserve(ArenaState, len))
    /\ query' = <<>> /\ answer' = <<>>
    /\ UNCHANGED <<a_returned, a_written>>

\* a store through get_mut, with a handle that a push returned
ArenaGetMut ==
    /\ apc = "run"
    /\ \E i \in DOMAIN a_returned, value \in Values, build \in Builds :
         LET id == a_returned[i]
             outcome == slot_access(ArenaState, id, build)
         IN  IF outcome = "ok"
             THEN /\ ArenaCommit(get_mut(ArenaState, id, value))
                  /\ a_written' = [a_written EXCEPT ![i] = value]
             ELSE /\ ArenaCommit([ArenaState EXCEPT !.pc = outcome])
                  /\ a_written' = a_written
    /\ query' = <<>> /\ answer' = <<>>
    /\ UNCHANGED a_returned

\* a read through get, with a handle that a push returned
ArenaGet ==
    /\ apc = "run"
    /\ \E i \in DOMAIN a_returned, build \in Builds :
         LET id == a_returned[i]
             outcome == slot_access(ArenaState, id, build)
         IN  IF outcome = "ok"
             THEN /\ query' = [op |-> "get", push |-> i]
                  /\ answer' = get(ArenaState, id)
                  /\ apc' = apc
             ELSE /\ query' = <<>> /\ answer' = <<>>
                  /\ apc' = outcome
    /\ UNCHANGED <<text, lexVars, locs, parseVars, a_len, a_chunks, a_returned, a_written>>

\* a loop over iter() to its end
ArenaIter ==
    /\ apc = "run"
    /\ \E build \in Builds :
         IF \A id \in 0..(a_len - 1) : slot_access(ArenaState, id, build) = "ok"
         THEN /\ query' = [op |-> "iter"]
              /\ answer' = iter(ArenaState)
              /\ apc' = apc
         ELSE /\ query' = <<>> /\ answer' = <<>>
              /\ apc' = IF build = "debug" THEN "abort"
                         ELSE LET bad == CHOOSE id \in 0..(a_len - 1) :
                                            /\ slot_access(ArenaState, id, build) # "ok"
                                            /\ \A j \in 0..(id - 1) :
                                                  slot_access(ArenaState, j, build) = "ok"
                              IN  slot_access(ArenaState, bad, build)
    /\ UNCHANGED <<text, lexVars, locs, parseVars, a_len, a_chunks, a_returned, a_written>>

ArenaNext ==
    \/ ArenaPush
    \/ ArenaReserve
    \/ ArenaGetMut
    \/ ArenaGet
    \/ ArenaIter

SpecArena == InitArena /\ [][ArenaNext]_vars

-----------------------------------------------------------------------------
(* Properties of the arena, checked under SpecArena *)

\* C19: after any sequence of push, reserve and get_mut calls, the k-th push
\* returned handle k-1, len() is the number of pushes, get(h) returns the
\* value last stored under h whatever was pushed or reserved since, and
\* iter() yields the handles 0..len-1 in insertion order with those values;
\* no call aborts.
C19_DenseStableHandles ==
    apc # "idle" =>
        /\ apc = "run"
        /\ \A k \in DOMAIN a_returned : a_returned[k] = k - 1
        /\ a_len = Len(a_returned)
        /\ (query # <<>> /\ query.op = "get") => answer = a_written[query.push]
        /\ (query # <<>> /\ query.op = "iter") =>
               answer = [i \in DOMAIN a_written |-> <<i - 1, a_written[i]>>]

\* iter() over two chunks of values that differ, after a reserve beyond them
C19_Witness ==
    /\ query # <<>> /\ query.op = "iter"
    /\ a_len > capacity
    /\ Len(a_chunks) > get_chunk_and_index(a_len - 1)[1] + 1
    /\ \E i, j \in DOMAIN a_written : a_written[i] # a_written[j]

-----------------------------------------------------------------------------
(* Properties of the lexer, checked under SpecLex *)

\* the input has none of the bytes whose dispatch slots are reserved
\* ('$', '#' and the bytes above 0x7F end in todo!)
NoReservedByte == \A i \in DOMAIN text : text[i] \notin {"$", "#", "UNI"}

\* C1: for every input, no handler of the dispatch loop aborts (no panic, no
\* todo!, no out-of-range byte read); lex returns a TokenizedText. Stated
\* here for the inputs without a reserved byte, where no todo! is met.
C1_NoHandlerAborts == NoReservedByte => lpc \notin {"abort", "ub"}

\* C2: lex terminates on every finite input; a block comment left open at
\* the end of input is tolerated: no handler loops for ever and the run ends
\* with FileEnd emitted.
C2_LexTerminates ==
    /\ lpc # "hang"
    /\ (NoReservedByte /\ \E i \in 1..(Len(text) - 1) : text[i] = "/" /\ text[i + 1] = "*")
           => lpc # "abort"

\* the tokens strictly between FileStart and FileEnd
InnerTokenIndices ==
    {i \in 1..Len(tokens) : tokens[i].kind \notin {"FileStart", "FileEnd"}}

\* C7: the start offsets of the tokens strictly between FileStart and
\* FileEnd are strictly increasing in token-index order.
C7_TokenStartsIncrease ==
    \A i, j \in InnerTokenIndices : i < j => tokens[i].start < tokens[j].start

\* C8: the first token is FileStart at 0, the last token is FileEnd at
\* buffer.len(), and the lexer cursor never exceeds buffer.len().
C8_FileBoundsAndCursor ==
    /\ cursor <= text_len
    /\ tokens # <<>> => (tokens[1].kind = "FileStart" /\ tokens[1].start = 0)
    /\ lpc = "done" => /\ tokens[Len(tokens)].kind = "FileEnd"
                       /\ tokens[Len(tokens)].start = text_len

\* the token stands at one of the bytes: the delimiter tokens that
\* lex_open_delimiter, lex_accessor and lex_close_delimiter emit stand at a
\* bracket byte, the LeftBrace and RightBrace of a keyword at a letter
StandsAt(t, bytes) == t.start < text_len /\ text[t.start + 1] \in bytes

\* The delimiter pairs of a token sequence, from the tokens alone: an open
\* delimiter waits on a stack, a close delimiter takes the top of the stack.
\* A pair is <<open index, close index>> (0-based token indices).
RECURSIVE PoppedPairs(_, _, _)
PoppedPairs(ts, i, waiting) ==
    IF i > Len(ts) THEN {}
    ELSE IF is_open_delimiter(ts[i].kind) /\ StandsAt(ts[i], {"(", "{", "["})
         THEN PoppedPairs(ts, i + 1, Append(waiting, i - 1))
    ELSE IF is_close_delimiter(ts[i].kind) /\ StandsAt(ts[i], {")", "}", "]"})
         THEN IF waiting = <<>> THEN PoppedPairs(ts, i + 1, waiting)
              ELSE {<<waiting[Len(waiting)], i - 1>>}
                       \cup PoppedPairs(ts, i + 1, SubSeq(waiting, 1, Len(waiting) - 1))
    ELSE PoppedPairs(ts, i + 1, waiting)

\* the pairs whose close delimiter has a handled token (the token the
\* handler is about to patch is not among them: a handler is one step)
MatchedPairs ==
    {pr \in PoppedPairs(tokens, 1, <<>>) :
        is_matching_delimiter(tokens[pr[1] + 1].kind, tokens[pr[2] + 1].kind)}

\* C9: for every open delimiter O popped by a close delimiter C of the
\* matching kind, O.payload is the index of C and C.payload is the index of
\* O, in every later state too.
C9_MatchedPayloads ==
    \A pr \in MatchedPairs :
        /\ tokens[pr[1] + 1].payload = pr[2]
        /\ tokens[pr[2] + 1].payload = pr[1]

\* a finished run with a matched pair nested in a matched pair of another kind
C9_Witness ==
    /\ lpc = "done"
    /\ \E a, b \in MatchedPairs :
          /\ a[1] < b[1] /\ b[2] < a[2]
          /\ tokens[a[1] + 1].kind # tokens[b[1] + 1].kind

\* C10: if has_mismatched_brackets is false when lexing finishes, every open
\* delimiter O has as payload the index of a matching close delimiter C
\* whose payload is the index of O.
C10_FlagClearMeansBalanced ==
    (lpc = "done" /\ ~has_mismatched_brackets) =>
        \A o \in 1..Len(tokens) :
            is_open_delimiter(tokens[o].kind) =>
                LET c == tokens[o].payload + 1
                IN  /\ c \in 1..Len(tokens)
                    /\ is_close_delimiter(tokens[c].kind)
                    /\ is_matching_delimiter(tokens[o].kind, tokens[c].kind)
                    /\ tokens[c].payload = o - 1

\* the pairs whose close delimiter popped an open delimiter of another kind
MismatchedPairs == PoppedPairs(tokens, 1, <<>>) \ MatchedPairs

\* C11: when a close delimiter pops an open delimiter of a non-matching
\* kind, has_mismatched_brackets is set and both the open token and the
\* close token keep payload 0.
C11_MismatchKeepsPayloadZero ==
    \A pr \in MismatchedPairs :
        /\ has_mismatched_brackets
        /\ tokens[pr[1] + 1].payload = 0
        /\ tokens[pr[2] + 1].payload = 0

\* the identifier run of the text that starts at offset start
IdentifierRun(start) ==
    LET ends == {e \in start..text_len :
                    /\ \A i \in (start + 1)..e : is_identifier_byte(text[i])
                    /\ e < text_len => ~is_identifier_byte(text[e + 1])}
    IN  SubSeq(text, start + 1, CHOOSE e \in ends : TRUE)

\* the lines that are lines of the buffer (all but the blank final line)
RealLines ==
    IF last_line_is_inserted THEN 1..(Len(lines) - 1) ELSE 1..Len(lines)

\* C17: after the line pre-pass, lines[0].start is 0, the line starts are
\* strictly increasing, every further line of the buffer starts one byte
\* after a line feed, and a non-empty buffer gets a blank final line at
\* buffer.len(), with last_line_is_inserted set, exactly when it does not end
\* in a line feed.
C17_LinesOfPrePass ==
    lpc \notin {"idle", "make_lines"} =>
        /\ lines # <<>> /\ lines[1].start = 0
        /\ \A i, j \in DOMAIN lines : i < j => lines[i].start < lines[j].start
        /\ \A k \in RealLines \ {1} : text[lines[k].start] = "LF"
        /\ last_line_is_inserted <=> (text # <<>> /\ text[Len(text)] # "LF")
        /\ last_line_is_inserted => lines[Len(lines)].start = text_len

\* a finished run over a buffer of several lines that does not end in a line feed
C17_Witness ==
    /\ lpc = "done"
    /\ last_line_is_inserted
    /\ Len(lines) >= 4

\* the 1-based index of the line whose range, from its start to the next
\* line's start, has the position (the last line's range has no end)
LineContaining(position) ==
    CHOOSE k \in DOMAIN lines :
        /\ lines[k].start <= position
        /\ k < Len(lines) => position < lines[k + 1].start

\* C18: for any token t of a lexed text, FileEnd too, get_line_number(t) is
\* the 1-based index of the line whose range has t.start.
C18_LineNumberIsContainingLine ==
    \A i \in DOMAIN locs : locs[i][1] = LineContaining(tokens[i].start)

\* C18 as amended: get_line_number(t) is the 1-based index of the line whose
\* range has t.start, except that a token that starts on the blank final
\* line is numbered with the line before it.
C18_LineNumberOffBlankLine ==
    \A i \in DOMAIN locs :
        LET k == LineContaining(tokens[i].start)
        IN  locs[i][1] = IF last_line_is_inserted /\ k = Len(lines) /\ k > 1
                         THEN k - 1 ELSE k

\* the line numbers were read for a text with tokens on two lines at least
\* and FileEnd on the blank final line
C18_Witness ==
    /\ locs # <<>>
    /\ last_line_is_inserted
    /\ LineContaining(tokens[Len(tokens)].start) = Len(lines)
    /\ \E i, j \in DOMAIN locs : locs[i][1] = 1 /\ locs[j][1] = 3

\* The delimiter pairs by token kind alone, a LeftBrace or RightBrace being
\* a brace whether it was written '{', '}' or begin, end.
RECURSIVE KindPairs(_, _, _)
KindPairs(ts, i, waiting) ==
    IF i > Len(ts) THEN {}
    ELSE IF is_open_delimiter(ts[i].kind)
         THEN KindPairs(ts, i + 1, Append(waiting, i - 1))
    ELSE IF is_close_delimiter(ts[i].kind)
         THEN IF waiting = <<>> THEN KindPairs(ts, i + 1, waiting)
              ELSE {<<waiting[Len(waiting)], i - 1>>}
                       \cup KindPairs(ts, i + 1, SubSeq(waiting, 1, Len(waiting) - 1))
    ELSE KindPairs(ts, i + 1, waiting)

\* the token is the LeftBrace of a begin or the RightBrace of an end
IsKeywordBrace(t) ==
    /\ t.kind \in {"LeftBrace", "RightBrace"}
    /\ StandsAt(t, LowerLetters)

\* C12: begin and end are emitted as LeftBrace and RightBrace and take part
\* in delimiter balancing exactly like '{' and '}': a matched pair that has
\* a begin or an end gets mutual payloads.
C12_BeginEndBalanced ==
    /\ \A i \in DOMAIN tokens :
          (tokens[i].kind # "FileStart" /\ StandsAt(tokens[i], LowerLetters)) =>
              LET run == IdentifierRun(tokens[i].start)
              IN  /\ run = <<"b", "e", "g", "i", "n">> => tokens[i].kind = "LeftBrace"
                  /\ run = <<"e", "n", "d">> => tokens[i].kind = "RightBrace"
    /\ \A pr \in KindPairs(tokens, 1, <<>>) :
          /\ IsKeywordBrace(tokens[pr[1] + 1]) \/ IsKeywordBrace(tokens[pr[2] + 1])
          /\ is_matching_delimiter(tokens[pr[1] + 1].kind, tokens[pr[2] + 1].kind)
          => /\ tokens[pr[1] + 1].payload = pr[2]
             /\ tokens[pr[2] + 1].payload = pr[1]

\* the longest operator that is a prefix of t, for t starting with '<' or '>'
LongestOperator(t) ==
    LET b == t[1]
        is_less == b = "<"
    IN  IF Len(t) >= 3 /\ t[2] = b /\ t[3] = "="
        THEN [kind |-> IF is_less THEN "LeftShiftAssign" ELSE "RightShiftAssign", len |-> 3]
        ELSE IF Len(t) >= 2 /\ t[2] = b
        THEN [kind |-> IF is_less THEN "LeftShift" ELSE "RightShift", len |-> 2]
        ELSE IF Len(t) >= 2 /\ t[2] = "="
        THEN [kind |-> IF is_less THEN "LessThanEquals" ELSE "GreaterThanEquals", len |-> 2]
        ELSE [kind |-> IF is_less THEN "LessThan" ELSE "GreaterThan", len |-> 1]

\* C13: for an input starting with '>' or '<', the first token is the
\* longest operator that is a prefix of the input and the cursor advances by
\* exactly that operator's length.
C13_MaximalMunch ==
    (text # <<>> /\ text[1] \in {"<", ">"} /\ Len(tokens) >= 2) =>
        /\ tokens[2].kind = LongestOperator(text).kind
        /\ tokens[2].start = 0
        /\ (Len(tokens) = 2 /\ lpc = "loop") => cursor = LongestOperator(text).len

\* the kind of an identifier run by the keyword mapping
KeywordKind(run) ==
    IF \E k \in KeywordMapping : k[1] = run
    THEN (CHOOSE k \in KeywordMapping : k[1] = run)[2]
    ELSE "Identifier"

\* C14: an identifier run whose bytes equal a keyword (static too) is
\* emitted with that keyword's kind; every other identifier run, a keyword
\* in another letter case too, is emitted as Identifier.
C14_KeywordKinds ==
    \A i \in DOMAIN tokens :
        (tokens[i].kind # "FileStart" /\ StandsAt(tokens[i], LowerLetters \cup UpperLetters \cup {"_"}))
            => tokens[i].kind = KeywordKind(IdentifierRun(tokens[i].start))

\* the offset after the first quote at or after offset i that is not part
\* of a doubled quote, or -1
RECURSIVE VerbatimEnd(_, _)
VerbatimEnd(t, i) ==
    IF i >= Len(t) THEN -1
    ELSE IF t[i + 1] = "DQ"
         THEN IF i + 1 < Len(t) /\ t[i + 2] = "DQ" THEN VerbatimEnd(t, i + 2)
              ELSE i + 1
    ELSE VerbatimEnd(t, i + 1)

\* C15: a verbatim string starting with @" is one VerbatimStringLiteral
\* token from the '@' through the first later quote that is not part of a
\* doubled quote; the opening quote is never taken as the terminator.
C15_VerbatimExtent ==
    (Len(text) >= 2 /\ text[1] = "@" /\ text[2] = "DQ"
        /\ VerbatimEnd(text, 2) # -1 /\ Len(tokens) >= 2) =>
        /\ tokens[2].kind = "VerbatimStringLiteral"
        /\ tokens[2].start = 0
        /\ (Len(tokens) = 2 /\ lpc = "loop") => cursor = VerbatimEnd(text, 2)

\* C16: a '?' that is not followed by another '?' is emitted as a
\* QuestionMark token.
C16_QuestionMark ==
    \A i \in DOMAIN tokens :
        (/\ tokens[i].kind \notin {"FileStart", "FileEnd"}
         /\ StandsAt(tokens[i], {"?"})
         /\ ~StandsAt([start |-> tokens[i].start + 1], {"?"}))
            => tokens[i].kind = "QuestionMark"

\* C21: FileStart and FileEnd are both emitted with has_leading_space true.
C21_FileTokensHaveLeadingSpace ==
    \A i \in DOMAIN tokens :
        tokens[i].kind \in {"FileStart", "FileEnd"} => tokens[i].has_leading_space

\* the offset of the first "*/" at or after offset from, or -1
FirstStarSlash(from) ==
    LET at == {i \in from..(text_len - 2) : text[i + 1] = "*" /\ text[i + 2] = "/"}
    IN  IF at = {} THEN -1 ELSE CHOOSE i \in at : \A j \in at : i <= j

\* C23: a block comment opened by "/*" ends right after the first "*/" that
\* follows the opener: its recorded range is from the offset of "/*" to the
\* offset just past that "*/", and a '*' and a '/' that are not adjacent
\* never end it.
C23_BlockCommentEndsAtFirstStarSlash ==
    \A k \in DOMAIN comments :
        LET c == comments[k]
        IN  (c.start + 1 < text_len /\ text[c.start + 1] = "/" /\ text[c.start + 2] = "*")
                => /\ FirstStarSlash(c.start + 2) # -1
                   /\ c.end = FirstStarSlash(c.start + 2) + 2

\* C25: lexing the empty buffer yields exactly the tokens FileStart at 0 and
\* FileEnd at 0, exactly one line with start 0, no diagnostics, and
\* last_line_is_inserted false.
C25_EmptyBuffer ==
    (text = <<>> /\ lpc # "idle") =>
        /\ lpc \notin {"abort", "ub", "hang"}
        /\ lpc = "done" =>
              /\ [i \in DOMAIN tokens |-> <<tokens[i].kind, tokens[i].start>>]
                     = <<(<<"FileStart", 0>>), (<<"FileEnd", 0>>)>>
              /\ [i \in DOMAIN lines |-> lines[i].start] = <<0>>
              /\ diagnostics = <<>>
              /\ ~last_line_is_inserted

\* the empty buffer was lexed to the end
C25_Witness == text = <<>> /\ lpc = "done" /\ Len(tokens) > 0

\* C27: every iteration of the dispatch loop leaves the cursor strictly
\* greater than it was at the start of the iteration, for every handler and
\* every input.
C27_CursorAdvances ==
    [][(lpc = "loop" /\ cursor < text_len /\ lpc' = "loop") => cursor' > cursor]_vars

\* C36: for any token t, get_column_number(t), the column of get_loc, is
\* t.start minus the start of t's line plus 1: the 1-based byte offset of the
\* token within its line.
C36_ColumnIsOffsetInLine ==
    \A i \in DOMAIN locs :
        locs[i][2] = tokens[i].start - lines[locs[i][1]].start + 1

\* the number of bytes from offset start to the first identifier byte or
\* horizontal whitespace or the end of the buffer, and 1 when there is none
ErrorRunLength(start) ==
    LET stops == {j \in start..text_len :
                     \/ j = text_len
                     \/ is_identifier_byte(text[j + 1])
                     \/ is_horizontal_whitespace(text[j + 1])}
        stop == CHOOSE j \in stops : \A k \in stops : j <= k
    IN  IF stop = start THEN 1 ELSE stop - start

\* C38: every Error token has a payload of at least 1 that is the number of
\* bytes the error handler consumed for it; the consumed run ends before the
\* first identifier byte or horizontal whitespace, after one byte at least;
\* and an "unrecognized characters" diagnostic is pushed exactly once per
\* Error token.
C38_ErrorTokens ==
    [][/\ (Len(tokens') > Len(tokens) /\ tokens'[Len(tokens')].kind = "Error") =>
             LET t == tokens'[Len(tokens')]
             IN  /\ t.start = cursor
                 /\ t.payload >= 1
                 /\ t.payload = ErrorRunLength(cursor)
                 /\ cursor' = cursor + t.payload
                 /\ diagnostics' = Append(diagnostics, "unrecognized characters while parsing")
       /\ (Len(diagnostics') > Len(diagnostics)
              /\ diagnostics'[Len(diagnostics')] = "unrecognized characters while parsing") =>
             /\ Len(tokens') = Len(tokens) + 1
             /\ tokens'[Len(tokens')].kind = "Error"]_vars

\* a finished run with an Error token of several bytes and one of one byte
\* that is an identifier byte
C38_Witness ==
    /\ lpc = "done"
    /\ \E i, j \in DOMAIN tokens :
          /\ tokens[i].kind = "Error" /\ tokens[i].payload >= 2
          /\ tokens[j].kind = "Error" /\ tokens[j].payload = 1
          /\ is_identifier_byte(text[tokens[j].start + 1])

-----------------------------------------------------------------------------
(* Properties of the parser, checked under SpecParse *)

\* the number of events of a type among the first k events
CountEvents(type, k) == Cardinality({i \in 1..k : events[i].type = type})

\* C3: for every well-formed stream of nested blocks and enum declarations,
\* parse completes without aborting and emits no Unexpected and no Missing
\* event.
C3_WellFormedParsesClean ==
    (ppc # "idle" /\ WellFormed(Body)) =>
        /\ ppc \notin {"abort", "ub"}
        /\ \A i \in DOMAIN events : events[i].type \notin {"Unexpected", "Missing"}

\* C4: every prefix of the event stream has at least as many Start as End
\* events, and the stream of a parse that returns has as many Start as End
\* events.
C4_BalancedEvents ==
    /\ \A k \in 0..Len(events) : CountEvents("Start", k) >= CountEvents("End", k)
    /\ ppc = "done" => CountEvents("Start", Len(events)) = CountEvents("End", Len(events))

\* a parse that returned after a block and an enum declaration with members
C4_Witness ==
    /\ ppc = "done"
    /\ \E i, j, k \in DOMAIN events :
          /\ events[i].type = "Start" /\ events[i].node = "Block"
          /\ events[j].type = "Start" /\ events[j].node = "EnumDecl"
          /\ events[k].type = "Start" /\ events[k].node = "EnumMember"
    /\ CountEvents("End", Len(events)) >= 4

\* C22: the depth counter is the number of Start events minus the number of
\* End events after every emit_start and emit_end, is never negative, and is
\* zero when parse completes.
C22_DepthCountsOpenNodes ==
    ppc # "idle" =>
        /\ depth = CountEvents("Start", Len(events)) - CountEvents("End", Len(events))
        /\ depth >= 0
        /\ ppc = "done" => depth = 0

\* the events of the members k..n of a declaration with trailing comma
RECURSIVE MemberEvents(_, _)
MemberEvents(k, n) ==
    IF k > n THEN <<>>
    ELSE <<Event("Start", "EnumMember", -1, ""),
           Event("Leaf", "", 2 + 2 * k, "Identifier"),
           Event("End", "", -1, ""),
           Event("Leaf", "", 3 + 2 * k, "Comma")>> \o MemberEvents(k + 1, n)

\* the events the declaration enum Id { Id, ..., Id, } of n members stands for
TrailingCommaEvents(n) ==
    <<Event("Start", "EnumDecl", -1, ""),
      Event("Leaf", "", 1, "Enum"),
      Event("Leaf", "", 2, "Identifier"),
      Event("Start", "EnumBlock", -1, ""),
      Event("Leaf", "", 3, "LeftBrace")>>
        \o MemberEvents(1, n)
        \o <<Event("Leaf", "", 4 + 2 * n, "RightBrace"),
              Event("End", "", -1, ""),
              Event("End", "", -1, "")>>

\* C24: for an enum declaration enum Id { Id, Id, ..., } whose every member
\* is followed by a comma, parse emits Start(EnumDecl), Leaf(Enum),
\* Leaf(Identifier), Start(EnumBlock), Leaf(LeftBrace), for each member
\* Start(EnumMember), Leaf(Identifier), End, Leaf(Comma), then
\* Leaf(RightBrace), End, End, and no Missing or Unexpected event.
C24_TrailingCommaEnumEvents ==
    \A n \in 1..MaxMembers :
        (ppc # "idle" /\ Body = TrailingCommaEnum(n)) =>
            /\ ppc \notin {"abort", "ub"}
            /\ Len(events) <= Len(TrailingCommaEvents(n))
            /\ events = SubSeq(TrailingCommaEvents(n), 1, Len(events))
            /\ ppc = "done" => events = TrailingCommaEvents(n)

\* the parse of a declaration of two members with trailing comma returned
C24_Witness == ppc = "done" /\ Body = TrailingCommaEnum(2) /\ Len(events) = 16

\* the event i is the Leaf of a token of a kind
LeafAt(i, kind) == events[i].type = "Leaf" /\ events[i].token_kind = kind

\* the Missing(EnumMember) events strictly between the events a and b
MissingBetween(a, b) ==
    {m \in (a + 1)..(b - 1) : events[m].type = "Missing" /\ events[m].node = "EnumMember"}

\* C29: in an enum member list, when the first token after '{' is a comma a
\* Missing(EnumMember) event precedes that comma's Leaf, and between the Leaf
\* events of two adjacent commas exactly one Missing(EnumMember) is emitted.
C29_MissingMembers ==
    \A a, b \in DOMAIN events :
        (a < b /\ LeafAt(b, "Comma") /\ events[b].token = events[a].token + 1) =>
            /\ LeafAt(a, "LeftBrace") => MissingBetween(a, b) # {}
            /\ LeafAt(a, "Comma") => Cardinality(MissingBetween(a, b)) = 1

\* a parse that returned after a member list that starts with a comma and
\* has two adjacent commas
C29_Witness ==
    /\ ppc = "done"
    /\ \E a, b, c \in DOMAIN events :
          /\ LeafAt(a, "LeftBrace") /\ LeafAt(b, "Comma") /\ LeafAt(c, "Comma")
          /\ events[b].token = events[a].token + 1
          /\ events[c].token = events[b].token + 1

\* C30: an enum declaration consumes exactly one RightBrace: once the
\* member list has consumed the closing '}', EnumEnd consumes no further
\* token and reports none as Unexpected.
C30_EnumEndConsumesNothing ==
    [][(Top("EnumEnd") /\ events # <<>> /\ LeafAt(Len(events), "RightBrace"))
          => p_cursor' = p_cursor]_vars

\* the first token at or after the token from where the scan for a token
\* kind ends: a token of that kind, a token of the same or a higher
\* precedence, or FileEnd
ScanStop(from, token_kind) ==
    LET stops == {j \in from..(Len(input) - 1) :
                     \/ get_kind(j) \in {token_kind, "FileEnd"}
                     \/ TokenPrecedence(get_kind(j)) >= TokenPrecedence(token_kind)}
    IN  CHOOSE j \in stops : \A k \in stops : j <= k

\* C26: eat_or_recover(expected): when the scan over tokens of strictly
\* lower precedence reaches expected, it emits one Unexpected per skipped
\* token, in order, then Leaf(expected), leaves the cursor just past
\* expected and succeeds; when the scan first reaches a token of the same or
\* a higher precedence, or FileEnd, it fails and leaves the cursor and the
\* events exactly as on entry.
C26_EatOrRecover ==
    (ppc = "recover" /\ answer # <<>>) =>
        LET stop == ScanStop(query.start, query.token_kind)
        IN  IF get_kind(stop) = query.token_kind
            THEN /\ answer = <<TRUE>>
                 /\ events = query.events
                        \o [i \in 1..(stop - query.start) |->
                               Event("Unexpected", "", query.start + i - 1,
                                     get_kind(query.start + i - 1))]
                        \o <<Event("Leaf", "", stop, query.token_kind)>>
                 /\ p_cursor = stop + 1
            ELSE /\ answer = <<FALSE>>
                 /\ events = query.events
                 /\ p_cursor = query.start

\* a call that skipped two tokens and ate the expected token
C26_Witness ==
    /\ ppc = "recover"
    /\ answer = <<TRUE>>
    /\ p_cursor = query.start + 3
    /\ Len(events) = Len(query.events) + 3

\* the keywords that start a statement
IntroducerKeywords == {"Enum", "Function", "Var", "If", "While"}

\* C28: a keyword that starts a statement (enum, function, var, if, while)
\* ranks above StrongPunctuator and below RightBrace, so that eat_or_recover
\* for a weaker expected token, '{', stops at the keyword and does not skip
\* it.
C28_RecoveryStopsAtKeyword ==
    (ppc = "recover" /\ answer # <<>> /\ query.token_kind = "LeftBrace") =>
        \A i \in DOMAIN events :
            events[i].type = "Unexpected" => events[i].token_kind \notin IntroducerKeywords

\* the recovery of '{' after the name position of the enum at the cursor
\* fails
LeftBraceNotRecovered ==
    \/ p_cursor + 2 > FileEndIndex
    \/ get_kind(ScanStop(p_cursor + 2, "LeftBrace")) # "LeftBrace"

\* C31: when the '{' of an enum declaration cannot be recovered, enum_start
\* emits End, End directly after Start(EnumBlock), pushes no list states and
\* consumes no token beyond the enum keyword and the name position; for
\* enum E A } the events begin Start(EnumDecl), Leaf(Enum), Leaf(Identifier),
\* Start(EnumBlock), End, End.
C31_EnumWithoutLeftBrace ==
    [][(Top("EnumStart") /\ LeftBraceNotRecovered) =>
          /\ ppc' = "run"
          /\ events' = events \o
                <<Event("Start", "EnumDecl", -1, ""),
                  Event("Leaf", "", p_cursor, "Enum"),
                  Event(IF get_kind(p_cursor + 1) = "Identifier" THEN "Leaf" ELSE "Unexpected",
                        "", p_cursor + 1, get_kind(p_cursor + 1)),
                  Event("Start", "EnumBlock", -1, ""),
                  Event("End", "", -1, ""),
                  Event("End", "", -1, "")>>
          /\ stack' = SubSeq(stack, 1, Len(stack) - 1)
          /\ p_cursor' = p_cursor + 2]_vars

\* C32: when the statement loop of a block ends at FileEnd and not at '}',
\* BlockEnd does not abort: it emits the End event of the block and pops its
\* state.
C32_UnclosedBlockEnds ==
    [][(Top("BlockEnd") /\ InRange(ParseState) /\ current(ParseState) = "FileEnd") =>
          /\ ppc' = "run"
          /\ events' = Append(events, Event("End", "", -1, ""))
          /\ stack' = SubSeq(stack, 1, Len(stack) - 1)]_vars

\* C33: between two consecutive dispatches of the work-stack loop the token
\* cursor does not decrease: a failed eat_or_recover restores the cursor to
\* its value at the entry of the handler, never below it.
C33_CursorNonDecreasing ==
    [][(ppc \in {"start", "run"}) => (p_cursor' >= p_cursor)]_vars

\* an enum_start whose recovery of '{' scanned over an identifier, failed and
\* went back to it
C33_Witness ==
    /\ ppc = "run"
    /\ Len(events) >= 3
    /\ events[Len(events) - 2].type = "Start" /\ events[Len(events) - 2].node = "EnumBlock"
    /\ events[Len(events) - 1].type = "End"
    /\ InRange(ParseState) /\ current(ParseState) = "Identifier"
    /\ get_kind(p_cursor + 1) = "RightBrace"

\* the token indices of the Leaf and Unexpected events, in emission order
RECURSIVE ReportedTokens(_)
ReportedTokens(k) ==
    IF k = 0 THEN <<>>
    ELSE IF events[k].type \in {"Leaf", "Unexpected"}
         THEN Append(ReportedTokens(k - 1), events[k].token)
         ELSE ReportedTokens(k - 1)

\* C34: at every dispatch boundary of the parser loop the token indices of
\* the Leaf and Unexpected events, in emission order, are exactly
\* 1, 2, ..., cursor - 1: every consumed token is reported once, in token
\* order, and no other token is reported.
C34_ConsumedTokensReported ==
    ppc \in {"run", "done"} =>
        ReportedTokens(Len(events)) = [i \in 1..(p_cursor - 1) |-> i]

\* a parse that returned after a recovery that skipped a token and with a
\* Leaf after it
C34_Witness ==
    /\ ppc = "done"
    /\ \E i \in DOMAIN events :
          /\ i + 1 \in DOMAIN events
          /\ events[i].type = "Unexpected" /\ events[i].token_kind \in {"Identifier", "Comma"}
          /\ events[i + 1].type = "Leaf" /\ events[i + 1].token_kind \in {"LeftBrace", "RightBrace"}

\* the weight of a state of the work stack: what its handler and the
\* handlers it gives way to can still do without consuming a token
StateWeight(kind, on_top) ==
    CASE kind = "StatementLoop" -> IF on_top THEN 4 ELSE 1
      [] kind = "Statement" -> 2
      [] kind = "EnumEnd" -> 4
      [] OTHER -> 1

RECURSIVE StackWeight(_)
StackWeight(st) ==
    IF st = <<>> THEN 0
    ELSE StateWeight(st[Len(st)], FALSE) + StackWeight(SubSeq(st, 1, Len(st) - 1))

\* a measure of the work left: the tokens not yet consumed, each worth more
\* than the states a handler pushes, and the weights of the stack
WorkLeft ==
    10 * (FileEndIndex + 1 - p_cursor)
        + (IF stack = <<>> THEN 0
           ELSE StateWeight(stack[Len(stack)], TRUE)
                    + StackWeight(SubSeq(stack, 1, Len(stack) - 1)))

\* C35: the work-stack loop ends on every token stream that ends in
\* FileEnd: every dispatch pops a state without pushing or consumes a token
\* before the same kind of state is on top again, so every dispatch that
\* does not abort lowers a measure of the work left that is never negative.
C35_ParseTerminates ==
    [][(ppc = "run" /\ stack # <<>>) =>
          \/ ppc' \in {"abort", "ub"}
          \/ ppc' = "run" /\ WorkLeft' < WorkLeft /\ WorkLeft' >= 0]_vars

\* a parse that returned after a statement that is none and an enum member
\* list
C35_Witness ==
    /\ ppc = "done"
    /\ \E j, k \in DOMAIN events :
          /\ events[j].type = "Start" /\ events[j].node = "EnumMember"
          /\ events[k].type = "Unexpected" /\ events[k].token_kind = "Semicolon"

\* C5: in every reachable parser state the token cursor is at most the
\* index of the FileEnd token.
C5_CursorWithinFileEnd == ppc # "idle" => p_cursor <= FileEndIndex

\* C6: whenever parse returns, the cursor is exactly at the FileEnd token.
C6_ReturnsAtFileEnd == ppc = "done" => p_cursor = FileEndIndex

====
